---- MODULE Spec2Model ----
(***************************************************************************)
(* WAFPolicy controller of the Coraza Kubernetes Operator.                 *)
(*                                                                         *)
(* The object store holds WAFPolicy, Gateway, HTTPRoute and Engine         *)
(* objects.  One reconciliation pass (Reconcile) is a sequence of store    *)
(* calls; every store call is one step of the model, so that other         *)
(* parties' writes can fall between two calls of a pass.                   *)
(***************************************************************************)
EXTENDS Naturals, Sequences, FiniteSets, TLC

VARIABLES
    watched,    \* the policy keys for which reconcile requests arrive
    policies,   \* store: WAFPolicy objects, by <<namespace, name>>
    gateways,   \* store: the Gateway objects that exist, <<namespace, name>>
    routes,     \* store: HTTPRoute objects, by <<namespace, name>>
    engines,    \* store: Engine objects, by <<namespace, name>>
    pass,       \* per policy key: the pass in flight (position and locals)
    result,     \* per policy key: what the last finished pass returned
    calls,      \* per policy key: the store calls of the current/last pass
    snap,       \* per policy key: outcomes of the last undisturbed passes
    finSeen,    \* policy keys whose finalizer has been persisted at some time
    fanout,     \* the last target event mapped to policy keys, and the keys
    env,        \* number of changes made by other parties so far
    faults,     \* number of store calls that failed transiently so far
    objects,    \* store: the objects createOrUpdate is called for, by slot
    upsert,     \* the call of createOrUpdate in flight, or the last one
    queue,      \* the controller's work queue and its workers
    limiter,    \* the queue's rate limiter, and the delays it gave
    sched,      \* the requests pending for the passes, and the watch's view
    conditions, \* a resource's condition list under the status setters
    admission   \* the last request to create or change a policy, and the answer

vars == <<watched, policies, gateways, routes, engines, pass, result, calls, snap,
          finSeen, fanout, env, faults, objects, upsert, queue, limiter, sched,
          conditions, admission>>

\* What the controller's passes and event mapping never touch.
aside == <<objects, upsert, queue, limiter, conditions, admission>>

\* What a call of createOrUpdate never touches.
core == <<watched, policies, gateways, routes, engines, pass, result, calls, snap,
          finSeen, fanout, queue, limiter, sched, conditions, admission>>

\* What the work queue and its rate limiter never touch.
offQueue == <<watched, policies, gateways, routes, engines, pass, result, calls, snap,
              finSeen, fanout, env, faults, objects, upsert, sched, conditions,
              admission>>

-----------------------------------------------------------------------------
(* Bounds of the model *)

MaxEnv == 2
MaxFaults == 1
MaxGeneration == 2
MaxUpserts == 2
MaxWorkers == 2
MaxFailures == 8

-----------------------------------------------------------------------------
(* Program constants *)

EngineNamePrefix == "wafpolicy-"
wafPolicyFinalizer == "waf.k8s.coraza.io/wafpolicy-finalizer"
GatewayNameLabel == "gateway.networking.k8s.io/gateway-name"
DefaultWasmImage == "oci://ghcr.io/test/coraza-proxy-wasm:latest"
DefaultPollInterval == 15

-----------------------------------------------------------------------------
(* The universe of objects *)

Namespaces == {"ns1", "ns2"}
PolicyKeys == {<<"ns1", "p1">>, <<"ns1", "p2">>, <<"ns2", "p1">>}
GatewayKeys == {<<"ns1", "gw1">>}
RouteKeys == {<<"ns1", "r1">>}
EngineKeys == {<<k[1], EngineNamePrefix \o k[2]>> : k \in PolicyKeys}

\* WAFPolicySpec values a user may write (admission lets only these kinds in).
PolicySpecs ==
    { [kind |-> "Gateway", name |-> "gw1", ruleSet |-> "rs1", failurePolicy |-> "fail"],
      [kind |-> "Gateway", name |-> "gw1", ruleSet |-> "rs2", failurePolicy |-> "allow"],
      [kind |-> "HTTPRoute", name |-> "r1", ruleSet |-> "rs1", failurePolicy |-> "fail"] }

\* spec.parentRefs of an HTTPRoute read as an unstructured document.
\* shape: "absent" (no field), "notslice" (field of another type), "slice".
\* An entry is a map or not; its name field is absent, not a string, or a string.
MapRef(nameKind, name, kind) ==
    [isMap |-> TRUE, nameKind |-> nameKind, name |-> name, kind |-> kind]
NotMapRef == [isMap |-> FALSE, nameKind |-> "absent", name |-> "", kind |-> ""]
RouteShapes ==
    { [shape |-> "absent", refs |-> <<>>],
      [shape |-> "notslice", refs |-> <<>>],
      [shape |-> "slice", refs |-> <<>>],
      [shape |-> "slice", refs |-> <<NotMapRef>>],
      [shape |-> "slice", refs |-> <<MapRef("absent", "", "Gateway")>>],
      [shape |-> "slice", refs |-> <<MapRef("number", "", "Gateway")>>],
      [shape |-> "slice", refs |-> <<MapRef("string", "", "Gateway")>>],
      [shape |-> "slice", refs |-> <<MapRef("string", "gw1", "Gateway")>>],
      [shape |-> "slice", refs |-> <<MapRef("string", "gw2", "Service"),
                                     MapRef("string", "gw1", "Gateway")>>] }

NilSpec == [kind |-> "", name |-> "", ruleSet |-> "", failurePolicy |-> ""]
NilPolicy ==
    [exists |-> FALSE, spec |-> NilSpec, generation |-> 0, deleting |-> FALSE,
     finalizers |-> {}, conds |-> <<>>, rv |-> 0, uid |-> 0]
otherFinalizer == "example.com/other-finalizer"
NewPolicy(s) ==
    [exists |-> TRUE, spec |-> s, generation |-> 1, deleting |-> FALSE,
     finalizers |-> {}, conds |-> <<>>, rv |-> 1, uid |-> 1]

\* No request to create or change a policy has been made.
NoAdmission == [key |-> <<>>, group |-> "", spec |-> NilSpec, err |-> <<>>, issued |-> 1]

NilRoute == [exists |-> FALSE, shape |-> "absent", refs |-> <<>>]

NilEngineSpec ==
    [ruleSet |-> [apiVersion |-> "", kind |-> "", name |-> ""],
     failurePolicy |-> "", image |-> "", mode |-> "", matchLabels |-> {},
     pollIntervalSeconds |-> 0]
NilEngine == [exists |-> FALSE, spec |-> NilEngineSpec, owners |-> {}, rv |-> 0]
\* What a deleted Engine leaves: the store hands out no resourceVersion again,
\* the place remembers the last one.
Removed(engine) == [NilEngine EXCEPT !.rv = engine.rv]

-----------------------------------------------------------------------------
(* Status condition helpers (apimachinery meta.SetStatusCondition and        *)
(* meta.RemoveStatusCondition as the controller uses them).  A condition's   *)
(* lastTransitionTime changes only together with its status, so it never     *)
(* distinguishes two condition lists that agree on the other fields.         *)

\* Faulty variant: ObservedGeneration is left at its zero value.
ConditionUnstamped(type, status, generation, reason, message) ==
    [type |-> type, status |-> status, observedGeneration |-> 0,
     reason |-> reason, message |-> message]

Condition(type, status, generation, reason, message) ==
    [type |-> type, status |-> status, observedGeneration |-> generation,
     reason |-> reason, message |-> message]

HasCondition(conds, type) == \E i \in 1..Len(conds) : conds[i].type = type

\* Faulty variant: the condition is appended even when its type is present.
SetStatusConditionAppending(conds, new) == Append(conds, new)

SetStatusCondition(conds, new) ==
    IF HasCondition(conds, new.type)
    THEN [i \in 1..Len(conds) |->
            IF conds[i].type = new.type /\ i = (CHOOSE j \in 1..Len(conds) : conds[j].type = new.type)
            THEN new ELSE conds[i]]
    ELSE Append(conds, new)

RemoveStatusCondition(conds, type) ==
    LET Keep(c) == c.type # type IN SelectSeq(conds, Keep)

setConditionTrue(conds, generation, type, reason, message) ==
    SetStatusCondition(conds, Condition(type, "True", generation, reason, message))

setConditionFalse(conds, generation, type, reason, message) ==
    SetStatusCondition(conds, Condition(type, "False", generation, reason, message))

\* setStatusConditionDegraded
setStatusConditionDegraded(conds, generation, reason, message) ==
    RemoveStatusCondition(
        setConditionTrue(setConditionFalse(conds, generation, "Ready", reason, message),
                         generation, "Degraded", reason, message),
        "Progressing")

\* setStatusProgressing
setStatusProgressing(conds, generation, reason, message) ==
    setConditionTrue(setConditionFalse(conds, generation, "Ready", reason, message),
                     generation, "Progressing", reason, message)

\* setStatusReady
setStatusReady(conds, generation, reason, message) ==
    RemoveStatusCondition(
        RemoveStatusCondition(setConditionTrue(conds, generation, "Ready", reason, message),
                              "Degraded"),
        "Progressing")

\* The condition list of a resource no setter was called for, and the setter
\* called last.
NoConditions == [list |-> <<>>, last |-> ""]

-----------------------------------------------------------------------------
(* Engine synthesis *)

\* Faulty variant: the Engine's name does not depend on the policy's name.
EngineKeyOfShared(k) == <<k[1], EngineNamePrefix \o "p1">>

EngineKeyOf(k) == <<k[1], EngineNamePrefix \o k[2]>>

\* Faulty variant: failurePolicy is a default instead of the policy's value.
EngineSpecForDefaultFailure(pol, gatewayName) ==
    [ruleSet |-> [apiVersion |-> "waf.k8s.coraza.io/v1alpha1", kind |-> "RuleSet",
                  name |-> pol.spec.ruleSet],
     failurePolicy |-> "fail",
     image |-> DefaultWasmImage,
     mode |-> "gateway",
     matchLabels |-> {<<GatewayNameLabel, gatewayName>>},
     pollIntervalSeconds |-> DefaultPollInterval]

EngineSpecFor(pol, gatewayName) ==
    [ruleSet |-> [apiVersion |-> "waf.k8s.coraza.io/v1alpha1", kind |-> "RuleSet",
                  name |-> pol.spec.ruleSet],
     failurePolicy |-> pol.spec.failurePolicy,
     image |-> DefaultWasmImage,
     mode |-> "gateway",
     matchLabels |-> {<<GatewayNameLabel, gatewayName>>},
     pollIntervalSeconds |-> DefaultPollInterval]

\* The owner reference SetControllerReference writes for the policy object of
\* key k and the given UID; OwnerRefOf is the reference to the policy stored.
OwnerRef(k, uid) == [kind |-> "WAFPolicy", name |-> k[2], uid |-> uid, controller |-> TRUE]
OwnerRefOf(k) == OwnerRef(k, policies[k].uid)
ForeignOwner == [kind |-> "Deployment", name |-> "other", uid |-> 1, controller |-> TRUE]

SameOwner(a, b) == a.kind = b.kind /\ a.name = b.name

\* controllerutil.SetControllerReference: refuses an object that another
\* controller owns (referSameObject compares group, kind and name, not the
\* UID), otherwise upserts the reference, which carries the owner's UID.
\* Faulty variant: no object is ever taken to be under another controller.
AlreadyOwnedNever(owners, k) == FALSE

AlreadyOwned(owners, k) ==
    \E o \in owners : o.controller /\ ~SameOwner(o, OwnerRef(k, 0))

\* Faulty variant: the owners are left as they were found.
SetControllerReferenceSkipped(owners, k, uid) == owners

SetControllerReference(owners, k, uid) ==
    {o \in owners : ~SameOwner(o, OwnerRef(k, uid))} \cup {OwnerRef(k, uid)}

-----------------------------------------------------------------------------
(* The pass in flight *)

IdlePass ==
    [pc |-> "idle", pol |-> NilPolicy, gw |-> "", eng |-> NilEngine, op |-> "",
     err |-> "", reason |-> "", message |-> "", requeue |-> FALSE]

NoResult == [done |-> FALSE, requeue |-> FALSE, err |-> ""]
Result(requeue, err) == [done |-> TRUE, requeue |-> requeue, err |-> err]

\* One store call of a pass: the verb, the kind and key of the object, the
\* error returned ("" for none) and a note on what was read or which code
\* path made the call.
Call(op, kind, key, res, obs) ==
    [op |-> op, kind |-> kind, key |-> key, res |-> res, obs |-> obs]

\* A store call fails transiently only while the fault budget lasts.
Outcomes == {"ok", "err"}
CanFail(o) == o = "ok" \/ faults < MaxFaults
FaultStep(o) == faults' = IF o = "err" THEN faults + 1 ELSE faults

\* The run of undisturbed passes of a key: how many have finished since the
\* last disturbance (up to 2), whether the pass in flight is undisturbed so
\* far, and what the last two of them left in the store.  A change by another
\* party or a failed store call is a disturbance.
NoSnap == [n |-> 0, clean |-> FALSE, prev |-> <<>>, last |-> <<>>]
Outcome(engine, pol) ==
    [engineExists |-> engine.exists, spec |-> engine.spec, conds |-> pol.conds]
EngineSlot(k) == <<k[1], "wafpolicy-" \o k[2]>>
Disturb == snap' = [k \in PolicyKeys |-> NoSnap]
SnapStep(k, o) == snap' = IF o = "err" THEN [snap EXCEPT ![k] = NoSnap] ELSE snap
Pushed(sn, out) ==
    [n |-> IF sn.n < 2 THEN sn.n + 1 ELSE 2, clean |-> FALSE,
     prev |-> sn.last, last |-> out]
SnapFinish(k, wasClean, o, out) ==
    snap' = [snap EXCEPT ![k] = IF wasClean /\ o = "ok" THEN Pushed(snap[k], out) ELSE NoSnap]

\* The requests pending for the passes, where a specification follows them
\* (on): the keys with a request in the work queue, the keys whose request the
\* rate limiter holds back, and the store as of the last events the watches
\* delivered.  Elsewhere a pass may start at any time and the record is idle.
NoSched == [on |-> FALSE, ready |-> {}, retry |-> {}, seen |-> <<>>]

\* A worker takes the request of k off the queue and calls Reconcile.
Taken(s, k) == IF s.on THEN [s EXCEPT !.ready = @ \ {k}] ELSE s

\* Faulty variant: Reconcile's error is not looked at.
ReturnedRequeueOnly(s, k, requeue, err) ==
    IF s.on /\ requeue THEN [s EXCEPT !.retry = @ \cup {k}] ELSE s

\* Faulty variant: the key is added again after every pass.
ReturnedAlways(s, k, requeue, err) ==
    IF s.on THEN [s EXCEPT !.retry = @ \cup {k}] ELSE s

\* Reconcile returned: on an error or Requeue the controller adds the key again
\* through the rate limiter, otherwise the key is forgotten.
Returned(s, k, requeue, err) ==
    IF s.on /\ (err # "" \/ requeue) THEN [s EXCEPT !.retry = @ \cup {k}] ELSE s

\* The pass of k ends here, returning (requeue, err).
Finish(k, requeue, err) ==
    /\ pass' = [pass EXCEPT ![k] = IdlePass]
    /\ result' = [result EXCEPT ![k] = Result(requeue, err)]
    /\ sched' = Returned(sched, k, requeue, err)

\* The pass of k goes on from the pass record p.
Goto(k, p) ==
    /\ pass' = [pass EXCEPT ![k] = p]
    /\ UNCHANGED <<result, sched>>

Log(k, c) == calls' = [calls EXCEPT ![k] = Append(@, c)]

\* A pass that starts takes the place of the finished passes in the record of
\* calls and results: these describe the pass of each key in flight and the
\* pass that finished last.
StartLog(k, c) ==
    calls' = [j \in PolicyKeys |->
                IF j = k THEN <<c>> ELSE IF pass[j].pc = "idle" THEN <<>> ELSE calls[j]]
StartFinish(k, requeue, err) ==
    /\ pass' = [pass EXCEPT ![k] = IdlePass]
    /\ result' = [j \in PolicyKeys |->
                   IF j = k THEN Result(requeue, err)
                   ELSE IF pass[j].pc = "idle" THEN NoResult ELSE result[j]]
    /\ sched' = Returned(Taken(sched, k), k, requeue, err)
StartGoto(k, p) ==
    /\ pass' = [pass EXCEPT ![k] = p]
    /\ result' = [j \in PolicyKeys |->
                   IF j = k \/ pass[j].pc = "idle" THEN NoResult ELSE result[j]]
    /\ sched' = Taken(sched, k)

-----------------------------------------------------------------------------
(* Reconcile: fetch, deletion, finalizer, dispatch *)

\* Faulty variant: every rejection asks for a requeue.
NotAcceptedRequeued(pol, reason, message, requeue) ==
    [IdlePass EXCEPT !.pc = "notacc", !.pol = pol, !.reason = reason,
                     !.message = message, !.requeue = TRUE]

NotAccepted(pol, reason, message, requeue) ==
    [IdlePass EXCEPT !.pc = "notacc", !.pol = pol, !.reason = reason,
                     !.message = message, !.requeue = requeue]

\* Reconcile's switch on targetRef.kind.
Dispatch(pol) ==
    IF pol.spec.kind \in {"Gateway", "HTTPRoute"}
    THEN [IdlePass EXCEPT !.pc = "target", !.pol = pol]
    ELSE NotAccepted(pol, "InvalidTargetRef",
                     "Unsupported targetRef kind: " \o pol.spec.kind, FALSE)

ContainsFinalizer(pol, f) == f \in pol.finalizers
AddFinalizer(pol, f) == [pol EXCEPT !.finalizers = @ \cup {f}]
RemoveFinalizer(pol, f) == [pol EXCEPT !.finalizers = @ \ {f}]

\* What the fetched policy says about the state Get observed.
Observed(pol) ==
    IF pol.deleting
    THEN (IF ContainsFinalizer(pol, wafPolicyFinalizer) THEN "deleting+fin" ELSE "deleting")
    ELSE (IF ContainsFinalizer(pol, wafPolicyFinalizer) THEN "fin" ELSE "nofin")

\* Faulty variant: a policy that is not found is reported as an error.
GetFailedStrict(err) == Result(FALSE, err)

\* Faulty variant: a failed fetch of the policy ends the pass without error.
GetFailedSilently(err) == Result(FALSE, "")

\* Reconcile's result when the fetch of the policy fails.
GetFailed(err) == IF err = "NotFound" THEN Result(FALSE, "") ELSE Result(FALSE, err)

\* Faulty variant: the finalizer is not attached before the dispatch.
FirstStepNoFinalizer(pol) ==
    IF pol.deleting
    THEN (IF ContainsFinalizer(pol, wafPolicyFinalizer)
          THEN [IdlePass EXCEPT !.pc = "rmfin", !.pol = RemoveFinalizer(pol, wafPolicyFinalizer)]
          ELSE IdlePass)
    ELSE Dispatch(pol)

\* Faulty variant: a deletion request is not looked at.
FirstStepNoDeletion(pol) ==
    IF ~ContainsFinalizer(pol, wafPolicyFinalizer)
    THEN [IdlePass EXCEPT !.pc = "addfin", !.pol = AddFinalizer(pol, wafPolicyFinalizer)]
    ELSE Dispatch(pol)

\* Reconcile after a successful fetch, up to its next store call: the deletion
\* branch, the finalizer branch, the dispatch.  A record with pc "idle" says
\* that the pass returns (success) without another call.
FirstStep(pol) ==
    IF pol.deleting
    THEN (IF ContainsFinalizer(pol, wafPolicyFinalizer)
          THEN [IdlePass EXCEPT !.pc = "rmfin", !.pol = RemoveFinalizer(pol, wafPolicyFinalizer)]
          ELSE IdlePass)
    ELSE (IF ~ContainsFinalizer(pol, wafPolicyFinalizer)
          THEN [IdlePass EXCEPT !.pc = "addfin", !.pol = AddFinalizer(pol, wafPolicyFinalizer)]
          ELSE Dispatch(pol))

ReconcileGet(k, o) ==
    /\ k \in watched
    /\ pass[k].pc = "idle"
    /\ CanFail(o)
    /\ FaultStep(o)
    /\ UNCHANGED <<policies, gateways, routes, engines, finSeen, watched, fanout, aside, env>>
    /\ LET e == IF o = "err" THEN "Transient"
                ELSE IF ~policies[k].exists THEN "NotFound" ELSE ""
           pol == policies[k]
           out == Outcome(engines[EngineSlot(k)], pol) IN
       IF e # ""
       THEN /\ StartLog(k, Call("Get", "WAFPolicy", k, e,
                                IF e = "NotFound" THEN "absent" ELSE ""))
            /\ StartFinish(k, GetFailed(e).requeue, GetFailed(e).err)
            /\ SnapFinish(k, TRUE, o, out)
       ELSE /\ StartLog(k, Call("Get", "WAFPolicy", k, "", Observed(pol)))
            /\ IF FirstStep(pol).pc = "idle"
               THEN /\ StartFinish(k, FALSE, "")
                    /\ SnapFinish(k, TRUE, o, out)
               ELSE /\ StartGoto(k, FirstStep(pol))
                    /\ snap' = [snap EXCEPT ![k].clean = TRUE]

\* The store's answer to Update(policy): the error, or "" on success.
UpdatePolicyError(k, local, o) ==
    IF o = "err" THEN "Transient"
    ELSE IF ~policies[k].exists THEN "NotFound"
    ELSE IF policies[k].rv # local.rv THEN "Conflict"
    ELSE ""

\* Faulty variant: the Update counts as a change of the spec.
UpdatedPolicyNewGeneration(k, local) ==
    [policies[k] EXCEPT !.finalizers = local.finalizers, !.generation = @ + 1, !.rv = @ + 1]

\* The policy as stored after a successful metadata Update: the finalizers are
\* the caller's; status is not written through the main resource.  An object
\* under deletion leaves the store with its last finalizer.
UpdatedPolicy(k, local) ==
    IF policies[k].deleting /\ local.finalizers = {}
    THEN NilPolicy
    ELSE [policies[k] EXCEPT !.finalizers = local.finalizers, !.rv = @ + 1]

\* Reconcile: AddFinalizer + Update, then the dispatch on the target kind.
ReconcileAddFinalizer(k, o) ==
    /\ pass[k].pc = "addfin"
    /\ CanFail(o)
    /\ FaultStep(o)
    /\ UNCHANGED <<gateways, routes, engines, watched, fanout, aside, env>>
    /\ LET e == UpdatePolicyError(k, pass[k].pol, o) IN
       /\ Log(k, Call("Update", "WAFPolicy", k, e, "addFinalizer"))
       /\ IF e # ""
          THEN /\ Finish(k, FALSE, e)
               /\ SnapFinish(k, FALSE, o, <<>>)
               /\ UNCHANGED <<policies, finSeen>>
          ELSE /\ policies' = [policies EXCEPT ![k] = UpdatedPolicy(k, pass[k].pol)]
               /\ finSeen' = finSeen \cup {k}
               /\ Goto(k, Dispatch(policies'[k]))
               /\ UNCHANGED snap

\* handleDeletion: RemoveFinalizer + Update, nothing else.
HandleDeletion(k, o) ==
    /\ pass[k].pc = "rmfin"
    /\ CanFail(o)
    /\ FaultStep(o)
    /\ UNCHANGED <<gateways, routes, engines, finSeen, watched, fanout, aside, env>>
    /\ LET e == UpdatePolicyError(k, pass[k].pol, o) IN
       /\ Log(k, Call("Update", "WAFPolicy", k, e, "removeFinalizer"))
       /\ Finish(k, FALSE, e)
       /\ policies' = IF e = "" THEN [policies EXCEPT ![k] = UpdatedPolicy(k, pass[k].pol)]
                      ELSE policies
       /\ SnapFinish(k, snap[k].clean /\ e = "", o,
                     Outcome(engines[EngineSlot(k)], policies'[k]))

-----------------------------------------------------------------------------
(* Target resolution *)

Quote(s) == "\"" \o s \o "\""

\* unstructured.NestedSlice(route, "spec", "parentRefs") and the checks on its
\* first entry: the reason of the rejection, or "" when a gateway name results.
\* Faulty variant: a first entry whose kind is not Gateway is rejected.
RouteReasonOfGateway(route) ==
    IF route.shape # "slice" \/ Len(route.refs) = 0 THEN "NoParentGateway"
    ELSE IF ~route.refs[1].isMap THEN "InvalidParentRef"
    ELSE IF route.refs[1].nameKind # "string" \/ route.refs[1].name = "" THEN "InvalidParentRef"
    ELSE IF route.refs[1].kind # "Gateway" THEN "InvalidParentRef"
    ELSE ""

RouteReason(route) ==
    IF route.shape # "slice" \/ Len(route.refs) = 0 THEN "NoParentGateway"
    ELSE IF ~route.refs[1].isMap THEN "InvalidParentRef"
    ELSE IF route.refs[1].nameKind # "string" \/ route.refs[1].name = "" THEN "InvalidParentRef"
    ELSE ""

RouteMessage(route, routeName) ==
    IF route.shape # "slice" \/ Len(route.refs) = 0
    THEN "HTTPRoute " \o Quote(routeName) \o " has no parentRefs"
    ELSE IF ~route.refs[1].isMap
    THEN "HTTPRoute " \o Quote(routeName) \o " has invalid parentRef"
    ELSE "HTTPRoute " \o Quote(routeName) \o " parentRef has no gateway name"

\* Faulty variant: the last parentRef is taken instead of the first.
RouteGatewayLast(route) == route.refs[Len(route.refs)].name

RouteGateway(route) == route.refs[1].name

RouteOf(key) == IF key \in RouteKeys THEN routes[key] ELSE NilRoute

\* Faulty variant: a missing target is not requeued.
TargetNotFoundNoRequeue(pol, kind, name) ==
    NotAccepted(pol, "TargetNotFound", kind \o " " \o Quote(name) \o " not found", FALSE)

\* What a failed lookup of the target makes of the pass.
TargetNotFound(pol, kind, name) ==
    NotAccepted(pol, "TargetNotFound", kind \o " " \o Quote(name) \o " not found", TRUE)

\* reconcileForGateway up to ensureEngine.
reconcileForGateway(k, pol, o) ==
    LET gatewayName == pol.spec.name
        key == <<k[1], gatewayName>> IN
    IF o = "err"
    THEN /\ Log(k, Call("Get", "Gateway", key, "Transient", ""))
         /\ Finish(k, FALSE, "Transient")
    ELSE IF key \notin gateways
    THEN /\ Log(k, Call("Get", "Gateway", key, "NotFound", ""))
         /\ Goto(k, TargetNotFound(pol, "Gateway", gatewayName))
    ELSE /\ Log(k, Call("Get", "Gateway", key, "", ""))
         /\ Goto(k, [IdlePass EXCEPT !.pc = "engget", !.pol = pol, !.gw = gatewayName])

\* reconcileForHTTPRoute up to ensureEngine.
reconcileForHTTPRoute(k, pol, o) ==
    LET routeName == pol.spec.name
        key == <<k[1], routeName>>
        route == RouteOf(key) IN
    IF o = "err"
    THEN /\ Log(k, Call("Get", "HTTPRoute", key, "Transient", ""))
         /\ Finish(k, FALSE, "Transient")
    ELSE IF ~route.exists
    THEN /\ Log(k, Call("Get", "HTTPRoute", key, "NotFound", ""))
         /\ Goto(k, TargetNotFound(pol, "HTTPRoute", routeName))
    ELSE /\ Log(k, Call("Get", "HTTPRoute", key, "", ""))
         /\ IF RouteReason(route) # ""
            THEN Goto(k, NotAccepted(pol, RouteReason(route),
                                     RouteMessage(route, routeName), FALSE))
            ELSE Goto(k, [IdlePass EXCEPT !.pc = "engget", !.pol = pol,
                                          !.gw = RouteGateway(route)])

ReconcileTarget(k, o) ==
    /\ pass[k].pc = "target"
    /\ CanFail(o)
    /\ FaultStep(o)
    /\ UNCHANGED <<policies, gateways, routes, engines, finSeen, watched, fanout, aside, env>>
    /\ SnapStep(k, o)
    /\ IF pass[k].pol.spec.kind = "Gateway"
       THEN reconcileForGateway(k, pass[k].pol, o)
       ELSE reconcileForHTTPRoute(k, pass[k].pol, o)

-----------------------------------------------------------------------------
(* Status projection *)

\* The store's answer to Status().Patch(policy): the error, or "" on success.
StatusPatchError(k, o) ==
    IF o = "err" THEN "Transient"
    ELSE IF ~policies[k].exists THEN "NotFound"
    ELSE ""

\* client.MergeFrom(original) applied to the status subresource: a JSON merge
\* patch replaces a list as a whole, and is empty when nothing has changed.
PatchedPolicy(k, original, modified) ==
    IF modified = original THEN policies[k]
    ELSE [policies[k] EXCEPT !.conds = modified, !.rv = @ + 1]

\* Faulty variant: Programmed is left in place when Accepted turns False.
NotAcceptedCondsKeepingProgrammed(pol, reason, message) ==
    SetStatusCondition(pol.conds,
        Condition("Accepted", "False", pol.generation, reason, message))

\* setNotAccepted's condition list.
NotAcceptedConds(pol, reason, message) ==
    RemoveStatusCondition(
        SetStatusCondition(pol.conds,
            Condition("Accepted", "False", pol.generation, reason, message)),
        "Programmed")

\* Faulty variant: Programmed=True is written without Accepted=True.
ProgrammedCondsOnly(pol, engineName, op) ==
    SetStatusCondition(pol.conds,
        Condition("Programmed", "True", pol.generation, "Programmed",
                  "Engine " \o Quote(engineName) \o " " \o op))

\* ensureEngine's condition list when the Engine is in sync.
ProgrammedConds(pol, engineName, op) ==
    SetStatusCondition(
        SetStatusCondition(pol.conds,
            Condition("Accepted", "True", pol.generation, "Accepted", "WAFPolicy is accepted")),
        Condition("Programmed", "True", pol.generation, "Programmed",
                  "Engine " \o Quote(engineName) \o " " \o op))

\* Faulty variant: a failed upsert is reported on Accepted, with Programmed removed.
SyncFailedCondsOnAccepted(pol, err) ==
    NotAcceptedConds(pol, "EngineSyncFailed", "Failed to create/update Engine: " \o err)

\* ensureEngine's condition list when CreateOrUpdate failed.
SyncFailedConds(pol, err) ==
    setConditionFalse(pol.conds, pol.generation, "Programmed", "EngineSyncFailed",
                      "Failed to create/update Engine: " \o err)

\* A status patch that ends the pass: the conditions are written unless the
\* patch fails, and the pass returns (requeue, err).
PatchAndFinish(k, o, path, modified, requeue, err) ==
    LET e == StatusPatchError(k, o) IN
    /\ Log(k, Call("Patch", "WAFPolicyStatus", k, e, path))
    /\ Finish(k, requeue, err)
    /\ policies' = IF e = ""
                   THEN [policies EXCEPT ![k] = PatchedPolicy(k, pass[k].pol.conds, modified)]
                   ELSE policies
    /\ SnapFinish(k, snap[k].clean /\ e = "", o, Outcome(engines[EngineSlot(k)], policies'[k]))

\* Faulty variant: the rejection also deletes the Engine of the policy.
SetNotAcceptedDroppingEngine(k, o) ==
    /\ pass[k].pc = "notacc"
    /\ CanFail(o)
    /\ FaultStep(o)
    /\ engines' = [engines EXCEPT ![EngineSlot(k)] = NilEngine]
    /\ UNCHANGED <<gateways, routes, finSeen, watched, fanout, aside, env>>
    /\ PatchAndFinish(k, o, "setNotAccepted",
                      NotAcceptedConds(pass[k].pol, pass[k].reason, pass[k].message),
                      pass[k].requeue, StatusPatchError(k, o))

SetNotAccepted(k, o) ==
    /\ pass[k].pc = "notacc"
    /\ CanFail(o)
    /\ FaultStep(o)
    /\ UNCHANGED <<gateways, routes, engines, finSeen, watched, fanout, aside, env>>
    /\ PatchAndFinish(k, o, "setNotAccepted",
                      NotAcceptedConds(pass[k].pol, pass[k].reason, pass[k].message),
                      pass[k].requeue, StatusPatchError(k, o))

-----------------------------------------------------------------------------
(* ensureEngine: controllerutil.CreateOrUpdate of the Engine, then status *)

SyncFailed(p, err) == [p EXCEPT !.pc = "syncfail", !.err = err]

\* Faulty variant: the Engine read is never taken to be the desired one.
DeepEqualNever(existing, obj) == FALSE

\* CreateOrUpdate's comparison of the Engine read with the Engine after the
\* mutate function: equal objects need no Update.
DeepEqual(existing, obj) == existing = obj

\* CreateOrUpdate's Get, the mutate function, and the comparison that decides
\* between no write, Create and Update.
EnsureEngineGet(k, o) ==
    /\ pass[k].pc = "engget"
    /\ CanFail(o)
    /\ FaultStep(o)
    /\ UNCHANGED <<policies, gateways, routes, engines, finSeen, watched, fanout, aside, env>>
    /\ SnapStep(k, o)
    /\ LET p == pass[k]
           ek == EngineKeyOf(k)
           existing == engines[ek]
           desired == EngineSpecFor(p.pol, p.gw) IN
       IF o = "err"
       THEN /\ Log(k, Call("Get", "Engine", ek, "Transient", ""))
            /\ Goto(k, SyncFailed(p, "Transient"))
       ELSE IF ~existing.exists
       THEN /\ Log(k, Call("Get", "Engine", ek, "NotFound", ""))
            /\ Goto(k, [p EXCEPT !.pc = "engcreate",
                          !.eng = [exists |-> TRUE, spec |-> desired,
                                   owners |-> SetControllerReference({}, k, p.pol.uid), rv |-> 0]])
       ELSE /\ Log(k, Call("Get", "Engine", ek, "", ""))
            /\ IF AlreadyOwned(existing.owners, k)
               THEN Goto(k, SyncFailed(p, "AlreadyOwned"))
               ELSE LET obj == [existing EXCEPT !.spec = desired,
                                   !.owners = SetControllerReference(existing.owners, k, p.pol.uid)] IN
                    IF DeepEqual(existing, obj)
                    THEN Goto(k, [p EXCEPT !.pc = "progd", !.op = "unchanged"])
                    ELSE Goto(k, [p EXCEPT !.pc = "engupdate", !.eng = obj])

EngineCreateError(ek, o) ==
    IF o = "err" THEN "Transient"
    ELSE IF engines[ek].exists THEN "AlreadyExists"
    ELSE ""

EngineUpdateError(ek, obj, o) ==
    IF o = "err" THEN "Transient"
    ELSE IF ~engines[ek].exists THEN "NotFound"
    ELSE IF engines[ek].rv # obj.rv THEN "Conflict"
    ELSE ""

EnsureEngineCreate(k, o) ==
    /\ pass[k].pc = "engcreate"
    /\ CanFail(o)
    /\ FaultStep(o)
    /\ UNCHANGED <<policies, gateways, routes, finSeen, watched, fanout, aside, env>>
    /\ SnapStep(k, o)
    /\ LET p == pass[k]
           ek == EngineKeyOf(k)
           e == EngineCreateError(ek, o) IN
       /\ Log(k, Call("Create", "Engine", ek, e, ""))
       /\ IF e # ""
          THEN /\ Goto(k, SyncFailed(p, e))
               /\ UNCHANGED engines
          ELSE /\ engines' = [engines EXCEPT ![ek] = [p.eng EXCEPT !.rv = engines[ek].rv + 1]]
               /\ Goto(k, [p EXCEPT !.pc = "progd", !.op = "created"])

EnsureEngineUpdate(k, o) ==
    /\ pass[k].pc = "engupdate"
    /\ CanFail(o)
    /\ FaultStep(o)
    /\ UNCHANGED <<policies, gateways, routes, finSeen, watched, fanout, aside, env>>
    /\ SnapStep(k, o)
    /\ LET p == pass[k]
           ek == EngineKeyOf(k)
           e == EngineUpdateError(ek, p.eng, o) IN
       /\ Log(k, Call("Update", "Engine", ek, e, ""))
       /\ IF e # ""
          THEN /\ Goto(k, SyncFailed(p, e))
               /\ UNCHANGED engines
          ELSE /\ engines' = [engines EXCEPT ![ek] = [p.eng EXCEPT !.rv = @ + 1]]
               /\ Goto(k, [p EXCEPT !.pc = "progd", !.op = "updated"])

\* ensureEngine's error branch: Programmed=False is patched (a failure of the
\* patch is only logged) and the upsert's error is returned.
EnsureEngineFailed(k, o) ==
    /\ pass[k].pc = "syncfail"
    /\ CanFail(o)
    /\ FaultStep(o)
    /\ UNCHANGED <<gateways, routes, engines, finSeen, watched, fanout, aside, env>>
    /\ PatchAndFinish(k, o, "syncFailed",
                      SyncFailedConds(pass[k].pol, pass[k].err), FALSE, pass[k].err)

\* ensureEngine's success branch: Accepted=True and Programmed=True are patched.
EnsureEngineProgrammed(k, o) ==
    /\ pass[k].pc = "progd"
    /\ CanFail(o)
    /\ FaultStep(o)
    /\ UNCHANGED <<gateways, routes, engines, finSeen, watched, fanout, aside, env>>
    /\ PatchAndFinish(k, o, "programmed",
                      ProgrammedConds(pass[k].pol, EngineKeyOf(k)[2], pass[k].op),
                      FALSE, StatusPatchError(k, o))

-----------------------------------------------------------------------------
(* Other parties: users, other controllers, the store's garbage collector *)

\* A change by another party ends the run of undisturbed passes, and the record
\* of the finished passes with it: that record describes a pass and the store
\* as the pass left it.
OtherParty ==
    /\ Disturb
    /\ calls' = [j \in PolicyKeys |-> IF pass[j].pc = "idle" THEN <<>> ELSE calls[j]]
    /\ result' = [j \in PolicyKeys |-> IF pass[j].pc = "idle" THEN NoResult ELSE result[j]]
    /\ UNCHANGED <<pass, finSeen, watched, fanout, aside, faults, sched>>

EnvStep ==
    /\ env < MaxEnv
    /\ env' = env + 1
    /\ OtherParty

GatewayCreate(g) ==
    /\ g \notin gateways
    /\ EnvStep
    /\ gateways' = gateways \cup {g}
    /\ UNCHANGED <<policies, routes, engines>>

GatewayDelete(g) ==
    /\ g \in gateways
    /\ EnvStep
    /\ gateways' = gateways \ {g}
    /\ UNCHANGED <<policies, routes, engines>>

RouteSet(r, sh) ==
    /\ ~routes[r].exists \/ routes[r].shape # sh.shape \/ routes[r].refs # sh.refs
    /\ EnvStep
    /\ routes' = [routes EXCEPT ![r] = [exists |-> TRUE, shape |-> sh.shape, refs |-> sh.refs]]
    /\ UNCHANGED <<policies, gateways, engines>>

RouteDelete(r) ==
    /\ routes[r].exists
    /\ EnvStep
    /\ routes' = [routes EXCEPT ![r] = NilRoute]
    /\ UNCHANGED <<policies, gateways, engines>>

\* A user edits the policy's spec: the store bumps the generation.
PolicySpecChange(k, s) ==
    /\ policies[k].exists
    /\ ~policies[k].deleting
    /\ policies[k].spec # s
    /\ policies[k].generation < MaxGeneration
    /\ EnvStep
    /\ policies' = [policies EXCEPT ![k].spec = s, ![k].generation = @ + 1, ![k].rv = @ + 1]
    /\ UNCHANGED <<gateways, routes, engines>>

\* Another controller puts its own finalizer on the policy.
PolicyOtherFinalizer(k) ==
    /\ policies[k].exists
    /\ ~policies[k].deleting
    /\ otherFinalizer \notin policies[k].finalizers
    /\ EnvStep
    /\ policies' = [policies EXCEPT ![k].finalizers = @ \cup {otherFinalizer}, ![k].rv = @ + 1]
    /\ UNCHANGED <<gateways, routes, engines>>

\* A user deletes the policy: with a finalizer present the store only marks it
\* (deletionTimestamp, generation bumped); without any it removes the object.
PolicyDelete(k) ==
    /\ policies[k].exists
    /\ ~policies[k].deleting
    /\ EnvStep
    /\ policies' = [policies EXCEPT ![k] =
                      IF policies[k].finalizers = {} THEN NilPolicy
                      ELSE [@ EXCEPT !.deleting = TRUE, !.generation = @ + 1, !.rv = @ + 1]]
    /\ UNCHANGED <<gateways, routes, engines>>

\* Another party edits the spec of the Engine of policy k.
EngineEdit(k) ==
    LET ek == EngineSlot(k) IN
    /\ policies[k].exists
    /\ engines[ek].exists
    /\ engines[ek].spec.image # "edited"
    /\ EnvStep
    /\ engines' = [engines EXCEPT ![ek].spec.image = "edited",
                                  ![ek].spec.failurePolicy = "edited",
                                  ![ek].spec.matchLabels = {},
                                  ![ek].rv = @ + 1]
    /\ UNCHANGED <<policies, gateways, routes>>

\* The options a user creates an Engine with.
EngineOptions == {[RuleSetName |-> "rs1", GatewayName |-> "gw1"]}
fallbackWasmImage ==
    "oci://ghcr.io/networking-incubator/coraza-proxy-wasm:179ea90b2617f557f805fe672daf880c14c6b8b7"
BuildEnginePollInterval == 5

\* BuildEngine: the spec of an Engine a user writes by hand; the options left
\* out take the defaults.  The object carries a name and a namespace and no
\* owner reference.
BuildEngine(opts) ==
    [ruleSet |-> [apiVersion |-> "waf.k8s.coraza.io/v1alpha1", kind |-> "RuleSet",
                  name |-> opts.RuleSetName],
     failurePolicy |-> "fail",
     image |-> fallbackWasmImage,
     mode |-> "gateway",
     matchLabels |-> {<<GatewayNameLabel, opts.GatewayName>>},
     pollIntervalSeconds |-> BuildEnginePollInterval]

\* A user creates an Engine, whether or not a policy is there; the Engines
\* studied are those of the names the watched keys give.
EngineCreate(k, opts) ==
    LET ek == EngineSlot(k) IN
    /\ k \in watched
    /\ ~engines[ek].exists
    /\ EnvStep
    /\ engines' = [engines EXCEPT ![ek] =
                     [exists |-> TRUE, spec |-> BuildEngine(opts), owners |-> {},
                      rv |-> engines[ek].rv + 1]]
    /\ UNCHANGED <<policies, gateways, routes>>

\* A user deletes an Engine.
EngineDelete(ek) ==
    /\ engines[ek].exists
    /\ EnvStep
    /\ engines' = [engines EXCEPT ![ek] = Removed(engines[ek])]
    /\ UNCHANGED <<policies, gateways, routes>>

\* A client of the store creates an Engine of the name policy k's has and
\* names another object as its controller: the store takes the owner references
\* of a Create as they come.  This is the Engine SetControllerReference
\* refuses to take over; the Engine is otherwise the one BuildEngine makes.
EngineForeignCreate(k, opts) ==
    LET ek == EngineSlot(k) IN
    /\ k \in watched
    /\ ~engines[ek].exists
    /\ EnvStep
    /\ engines' = [engines EXCEPT ![ek] =
                     [exists |-> TRUE, spec |-> BuildEngine(opts), owners |-> {ForeignOwner},
                      rv |-> engines[ek].rv + 1]]
    /\ UNCHANGED <<policies, gateways, routes>>

\* What users do to Engines.
EngineChanges ==
    \/ \E k \in PolicyKeys :
          \/ EngineEdit(k)
          \/ \E opts \in EngineOptions : EngineCreate(k, opts)
    \/ \E ek \in EngineKeys : EngineDelete(ek)

\* The store's cascade: an Engine none of whose owners is in the store any
\* more is removed.  The collector looks an owner up by name and compares the
\* UID, so a policy re-created under the name of the owner does not count.
GarbageCollect(ek) ==
    /\ engines[ek].exists
    /\ engines[ek].owners # {}
    /\ \A o \in engines[ek].owners :
          /\ o.kind = "WAFPolicy"
          /\ \/ ~policies[<<ek[1], o.name>>].exists
             \/ policies[<<ek[1], o.name>>].uid # o.uid
    /\ engines' = [engines EXCEPT ![ek] = Removed(engines[ek])]
    /\ OtherParty
    /\ UNCHANGED <<policies, gateways, routes, env>>

-----------------------------------------------------------------------------
(* The controller's work queue, its workers and its rate limiter *)

\* The rate limiter's delays, in seconds.
BaseDelay == 1
MaxDelay == 60

\* The keys the queue is studied with.
QueueKeys == {<<"ns1", "p1">>, <<"ns1", "p2">>}
NoKey == <<>>
Workers == 1..MaxWorkers

\* What a pass hands back to the controller: success, a requeue request, an error.
PassResults == {Result(FALSE, ""), Result(TRUE, ""), Result(FALSE, "Transient"),
                Result(TRUE, "Transient")}

\* items: the keys waiting for a worker, in order; dirty: the keys to be
\* processed; processing: the keys a worker holds; waiting: the keys whose
\* delayed Add has not come yet; workers: the key each worker holds and how
\* far it is with it.
IdleWorker == [key |-> NoKey, stage |-> "idle"]
IdleQueue ==
    [items |-> <<>>, dirty |-> {}, processing |-> {}, waiting |-> {},
     workers |-> [w \in Workers |-> IdleWorker]]

\* failures: the rate limiter's count per key; delay: the delay of the last
\* rate-limited requeue of the key (0 when there is none since the key was
\* forgotten); streak: the passes of the key that failed in a row.
IdleLimiter ==
    [failures |-> [k \in QueueKeys |-> 0], delay |-> [k \in QueueKeys |-> 0],
     streak |-> [k \in QueueKeys |-> 0]]

\* Faulty variant: the exponent counts the failure being handled.
WhenCountingFirst(failures) ==
    IF BaseDelay * 2^(failures + 1) > MaxDelay THEN MaxDelay ELSE BaseDelay * 2^(failures + 1)

\* ItemExponentialFailureRateLimiter.When for a key that has failed
\* `failures` times before: the base delay doubled that many times, capped.
When(failures) ==
    IF BaseDelay * 2^failures > MaxDelay THEN MaxDelay ELSE BaseDelay * 2^failures

\* Faulty variant: a key being processed is queued again at once.
AddedWhileProcessing(q, k) ==
    IF k \in q.dirty THEN q
    ELSE [q EXCEPT !.dirty = @ \cup {k}, !.items = Append(@, k)]

\* Queue.Add: a key already to be processed is not added again; a key being
\* processed is marked and queued when its worker is done with it.
Added(q, k) ==
    IF k \in q.dirty THEN q
    ELSE IF k \in q.processing THEN [q EXCEPT !.dirty = @ \cup {k}]
    ELSE [q EXCEPT !.dirty = @ \cup {k}, !.items = Append(@, k)]

\* A watch event enqueues the key.
Trigger(k) ==
    /\ queue' = Added(queue, k)
    /\ queue' # queue
    /\ UNCHANGED <<limiter, offQueue>>

\* The delayed Add of a requeue comes.
DelayedAdd(k) ==
    /\ k \in queue.waiting
    /\ queue' = Added([queue EXCEPT !.waiting = @ \ {k}], k)
    /\ UNCHANGED <<limiter, offQueue>>

\* Queue.Get by a free worker: the first key leaves the queue and is held.
WorkerGet(w) ==
    /\ queue.workers[w].stage = "idle"
    /\ queue.items # <<>>
    /\ LET k == Head(queue.items) IN
       queue' = [queue EXCEPT !.items = Tail(@),
                              !.processing = @ \cup {k},
                              !.dirty = @ \ {k},
                              !.workers[w] = [key |-> k, stage |-> "reconcile"]]
    /\ UNCHANGED <<limiter, offQueue>>

\* The pass returns r and the controller handles it: an error or a requeue
\* request requeues the key after the rate limiter's delay, anything else
\* lets the rate limiter forget the key.
WorkerHandle(w, r) ==
    /\ queue.workers[w].stage = "reconcile"
    /\ LET k == queue.workers[w].key
           failed == r.err # "" \/ r.requeue IN
       /\ failed => limiter.failures[k] < MaxFailures
       /\ limiter' =
            IF failed
            THEN [limiter EXCEPT !.delay[k] = When(limiter.failures[k]),
                                 !.failures[k] = @ + 1,
                                 !.streak[k] = @ + 1]
            ELSE [limiter EXCEPT !.delay[k] = 0, !.failures[k] = 0, !.streak[k] = 0]
       /\ queue' = [queue EXCEPT !.workers[w].stage = "done",
                                 !.waiting = IF failed THEN @ \cup {k} ELSE @]
    /\ UNCHANGED offQueue

\* Queue.Done: the worker lets go of the key, which is queued if it was
\* added meanwhile.
WorkerDone(w) ==
    /\ queue.workers[w].stage = "done"
    /\ LET k == queue.workers[w].key IN
       queue' = [queue EXCEPT !.processing = @ \ {k},
                              !.items = IF k \in queue.dirty THEN Append(@, k) ELSE @,
                              !.workers[w] = IdleWorker]
    /\ UNCHANGED <<limiter, offQueue>>

-----------------------------------------------------------------------------
(* createOrUpdate: the upsert of an unstructured object *)

\* The desired objects a caller may pass: the kind is empty (no
\* GroupVersionKind), namespaced or cluster-scoped; the namespace and the name
\* may be empty; the object may carry a version token of its own.
UpsertKinds == {"", "ConfigMap", "ClusterRole"}
UpsertVersions == {"", "v1"}
UpsertNamespaces == {"", "ns1"}
UpsertNames == {"", "obj"}
Payloads == {"a", "b"}
DesiredVersions == {0, 9}
DesiredObjects ==
    [apiVersion : UpsertVersions, kind : UpsertKinds, namespace : UpsertNamespaces,
     name : UpsertNames, data : Payloads, rv : DesiredVersions]

Namespaced(kind) == kind = "ConfigMap"

\* The places of the store that these objects can occupy.
ObjectSlots ==
    {<<"ConfigMap", "default", "obj">>, <<"ConfigMap", "ns1", "obj">>,
     <<"ClusterRole", "", "obj">>}

\* An absent object keeps the version the slot has reached, so that versions
\* never repeat in a slot.
NilObject == [exists |-> FALSE, data |-> "", rv |-> 0]

NoError == [msg |-> "", cause |-> ""]
Wrapped(verb, kind, name, namespace, cause) ==
    [msg |-> "failed to " \o verb \o " " \o kind \o "/" \o name \o
             " in namespace " \o namespace \o ": " \o cause,
     cause |-> cause]

IdleUpsert ==
    [pc |-> "idle",
     desired |-> [apiVersion |-> "", kind |-> "", namespace |-> "", name |-> "", data |-> "",
                  rv |-> 0],
     namespace |-> "", log |-> <<>>, done |-> FALSE, err |-> NoError, n |-> 0]

AsideIdle ==
    /\ objects = [s \in ObjectSlots |-> NilObject]
    /\ upsert = IdleUpsert
    /\ queue = IdleQueue
    /\ limiter = IdleLimiter
    /\ conditions = NoConditions
    /\ admission = NoAdmission

\* ObjectKey of createOrUpdate's Get, where an empty namespace has become the
\* default one; the store ignores the namespace of a cluster-scoped kind.
GetSlot(kind, namespace, name) ==
    <<kind, IF Namespaced(kind) THEN namespace ELSE "", name>>

\* The slot a Create or Update of the object addresses: the object's own
\* namespace, which createOrUpdate leaves as the caller set it.
WriteSlot(d) == <<d.kind, IF Namespaced(d.kind) THEN d.namespace ELSE "", d.name>>

\* One call of the client: the verb, the slot addressed, the version token
\* of the object sent (of the object read, for a Get), and the error returned.
ClientCall(op, slot, rv, res) == [op |-> op, slot |-> slot, rv |-> rv, res |-> res]

UpsertReturn(u, e) == [u EXCEPT !.pc = "idle", !.done = TRUE, !.err = e]

\* Faulty variant: the version token of the object read is not copied.
FoundKeepingVersion(u, resource) == [u EXCEPT !.pc = "update"]

\* createOrUpdate after a Get that found the object.
Found(u, resource) == [u EXCEPT !.pc = "update", !.desired.rv = resource.rv]

\* schema.GroupVersionKind.Empty: group, version and kind are all empty.
Empty(d) == d.apiVersion = "" /\ d.kind = ""

\* The client's answer, before any request is sent, to a call with an
\* unstructured object that lacks its kind or its version.
ClientRefusal(d) ==
    IF d.kind = "" THEN "MissingKind"
    ELSE IF d.apiVersion = "" THEN "MissingVersion"
    ELSE ""

\* createOrUpdate is called: the checks of the desired object, and the
\* defaulting of the namespace for the Get.
createOrUpdate(d) ==
    /\ upsert.pc = "idle"
    /\ upsert.n < MaxUpserts
    /\ LET u == [IdleUpsert EXCEPT !.desired = d, !.n = upsert.n + 1] IN
       upsert' =
         IF Empty(d)
         THEN UpsertReturn(u, [msg |-> "desired object must have GroupVersionKind set", cause |-> "Invalid"])
         ELSE IF d.name = ""
         THEN UpsertReturn(u, [msg |-> "desired object must have a name set", cause |-> "Invalid"])
         ELSE [u EXCEPT !.pc = "get",
                        !.namespace = IF d.namespace = "" THEN "default" ELSE d.namespace]
    /\ UNCHANGED <<objects, env, faults, core>>

\* c.Get and the branch on its error.
createOrUpdateGet(o) ==
    /\ upsert.pc = "get"
    /\ CanFail(o)
    /\ FaultStep(o)
    /\ LET d == upsert.desired
           slot == GetSlot(d.kind, upsert.namespace, d.name)
           e == IF ClientRefusal(d) # "" THEN ClientRefusal(d)
                ELSE IF o = "err" THEN "Transient"
                ELSE IF ~objects[slot].exists THEN "NotFound" ELSE ""
           u == [upsert EXCEPT !.log = Append(@, ClientCall("Get", slot,
                                             IF e = "" THEN objects[slot].rv ELSE 0, e))] IN
       upsert' =
         IF e = "NotFound" THEN [u EXCEPT !.pc = "create"]
         ELSE IF e # "" THEN UpsertReturn(u, Wrapped("get", d.kind, d.name, upsert.namespace, e))
         ELSE Found(u, objects[slot])
    /\ UNCHANGED <<objects, env, core>>

\* The store's answer to a write of an object of a namespaced kind without a
\* namespace, else to a Create, else to an Update.
WriteError(d, o) ==
    IF o = "err" THEN "Transient"
    ELSE IF Namespaced(d.kind) /\ d.namespace = "" THEN "EmptyNamespace"
    ELSE ""

\* A Create of an object that carries a resourceVersion is refused by the
\* store before it looks for the object.
ObjectCreateError(d, o) ==
    IF WriteError(d, o) # "" THEN WriteError(d, o)
    ELSE IF d.rv # 0 THEN "ResourceVersionSet"
    ELSE IF objects[WriteSlot(d)].exists THEN "AlreadyExists"
    ELSE ""

\* Faulty variant: the store does not compare version tokens.
ObjectUpdateErrorLastWriterWins(d, o) ==
    IF WriteError(d, o) # "" THEN WriteError(d, o)
    ELSE IF ~objects[WriteSlot(d)].exists THEN "NotFound"
    ELSE ""

ObjectUpdateError(d, o) ==
    IF WriteError(d, o) # "" THEN WriteError(d, o)
    ELSE IF ~objects[WriteSlot(d)].exists THEN "NotFound"
    ELSE IF d.rv # 0 /\ objects[WriteSlot(d)].rv # d.rv THEN "Conflict"
    ELSE ""

Stored(slot, d) == [exists |-> TRUE, data |-> d.data, rv |-> objects[slot].rv + 1]

\* c.Create after a Get that found nothing.
createOrUpdateCreate(o) ==
    /\ upsert.pc = "create"
    /\ CanFail(o)
    /\ FaultStep(o)
    /\ LET d == upsert.desired
           e == ObjectCreateError(d, o)
           u == [upsert EXCEPT !.log = Append(@, ClientCall("Create", WriteSlot(d), d.rv, e))] IN
       /\ upsert' = UpsertReturn(u, IF e = "" THEN NoError
                                    ELSE Wrapped("create", d.kind, d.name, upsert.namespace, e))
       /\ objects' = IF e = "" THEN [objects EXCEPT ![WriteSlot(d)] = Stored(WriteSlot(d), d)]
                     ELSE objects
    /\ UNCHANGED <<env, core>>

\* c.Update of the desired object carrying the version token copied.
createOrUpdateUpdate(o) ==
    /\ upsert.pc = "update"
    /\ CanFail(o)
    /\ FaultStep(o)
    /\ LET d == upsert.desired
           e == ObjectUpdateError(d, o)
           u == [upsert EXCEPT !.log = Append(@, ClientCall("Update", WriteSlot(d), d.rv, e))] IN
       /\ upsert' = UpsertReturn(u, IF e = "" THEN NoError
                                    ELSE Wrapped("update", d.kind, d.name, upsert.namespace, e))
       /\ objects' = IF e = "" THEN [objects EXCEPT ![WriteSlot(d)] = Stored(WriteSlot(d), d)]
                     ELSE objects
    /\ UNCHANGED <<env, core>>

\* Other writers of the same objects.
ObjectWrite(slot, data) ==
    /\ env < MaxEnv
    /\ env' = env + 1
    /\ objects' = [objects EXCEPT ![slot] = [exists |-> TRUE, data |-> data, rv |-> @.rv + 1]]
    /\ UNCHANGED <<upsert, faults, core>>

ObjectDelete(slot) ==
    /\ env < MaxEnv
    /\ env' = env + 1
    /\ objects[slot].exists
    /\ objects' = [objects EXCEPT ![slot] = [NilObject EXCEPT !.rv = objects[slot].rv]]
    /\ UNCHANGED <<upsert, faults, core>>

-----------------------------------------------------------------------------
(* Specification: the store holds one policy at most.  A pass reads and     *)
(* writes only its own policy and its own Engine, so the passes of several   *)
(* policies are studied apart, under SpecPair.                               *)

NoFanout == [kind |-> "", name |-> "", namespace |-> "", listed |-> FALSE, requests |-> <<>>]

\* No pass has run and no other party has acted; the store holds no route
\* and no Engine.
InitIdle ==
    /\ routes = [r \in RouteKeys |-> NilRoute]
    /\ engines = [e \in EngineKeys |-> NilEngine]
    /\ pass = [k \in PolicyKeys |-> IdlePass]
    /\ result = [k \in PolicyKeys |-> NoResult]
    /\ calls = [k \in PolicyKeys |-> <<>>]
    /\ snap = [k \in PolicyKeys |-> NoSnap]
    /\ finSeen = {}
    /\ fanout = NoFanout
    /\ env = 0
    /\ faults = 0
    /\ AsideIdle

InitRest ==
    /\ gateways = {}
    /\ InitIdle

\* One key is watched; its policy exists or not.
Init ==
    /\ \E k \in PolicyKeys :
          /\ watched = {k}
          /\ policies \in {[j \in PolicyKeys |-> IF j = k THEN p ELSE NilPolicy] :
                              p \in {NilPolicy} \cup {NewPolicy(s) : s \in PolicySpecs}}
    /\ InitRest
    /\ sched = NoSched

Pass ==
    \E k \in PolicyKeys, o \in Outcomes :
        \/ ReconcileGet(k, o)
        \/ ReconcileAddFinalizer(k, o)
        \/ HandleDeletion(k, o)
        \/ ReconcileTarget(k, o)
        \/ SetNotAccepted(k, o)
        \/ EnsureEngineGet(k, o)
        \/ EnsureEngineCreate(k, o)
        \/ EnsureEngineUpdate(k, o)
        \/ EnsureEngineFailed(k, o)
        \/ EnsureEngineProgrammed(k, o)

Environment ==
    \/ \E g \in GatewayKeys : GatewayCreate(g) \/ GatewayDelete(g)
    \/ \E r \in RouteKeys : RouteDelete(r) \/ \E sh \in RouteShapes : RouteSet(r, sh)
    \/ \E k \in PolicyKeys :
          \/ PolicyDelete(k)
          \/ PolicyOtherFinalizer(k)
          \/ \E s \in PolicySpecs : PolicySpecChange(k, s)
    \/ EngineChanges
    \/ \E ek \in EngineKeys : GarbageCollect(ek)

Next == Pass \/ Environment

Spec == Init /\ [][Next]_vars

-----------------------------------------------------------------------------
(* A store in which another client keeps Engines of its own under the names  *)
(* the core uses: the Engine of the watched key's name is there from the     *)
(* start, under another controller, or such an Engine is created later.      *)

InitForeign ==
    /\ \E k \in PolicyKeys :
          /\ watched = {k}
          /\ policies \in {[j \in PolicyKeys |-> IF j = k THEN p ELSE NilPolicy] :
                              p \in {NilPolicy} \cup {NewPolicy(s) : s \in PolicySpecs}}
          /\ engines \in {[e \in EngineKeys |-> IF e = EngineSlot(k) THEN x ELSE NilEngine] :
                             x \in {NilEngine} \cup
                                   {[exists |-> TRUE, spec |-> BuildEngine(opts),
                                     owners |-> {ForeignOwner}, rv |-> 1] :
                                       opts \in EngineOptions}}
    /\ gateways \in {{}, GatewayKeys}
    /\ routes = [r \in RouteKeys |-> NilRoute]
    /\ pass = [k \in PolicyKeys |-> IdlePass]
    /\ result = [k \in PolicyKeys |-> NoResult]
    /\ calls = [k \in PolicyKeys |-> <<>>]
    /\ snap = [k \in PolicyKeys |-> NoSnap]
    /\ finSeen = {}
    /\ fanout = NoFanout
    /\ env = 0
    /\ faults = 0
    /\ AsideIdle
    /\ sched = NoSched

NextForeign ==
    \/ Pass
    \/ Environment
    \/ \E k \in PolicyKeys, opts \in EngineOptions : EngineForeignCreate(k, opts)

SpecForeign == InitForeign /\ [][NextForeign]_vars

-----------------------------------------------------------------------------
(* Two policies side by side: both keys are watched and both policies exist, *)
(* the targets are in place, no store call fails transiently, and other      *)
(* parties delete policies and edit or create Engines.                        *)

GoodRoute == [exists |-> TRUE, shape |-> "slice",
              refs |-> <<MapRef("string", "gw1", "Gateway")>>]

InitPair ==
    /\ \E k1, k2 \in PolicyKeys :
          /\ k1 # k2
          /\ watched = {k1, k2}
          /\ policies \in {[j \in PolicyKeys |->
                              IF j \in {k1, k2} THEN NewPolicy(s) ELSE NilPolicy] :
                              s \in PolicySpecs}
    /\ gateways = GatewayKeys
    /\ routes = [r \in RouteKeys |-> GoodRoute]
    /\ engines = [e \in EngineKeys |-> NilEngine]
    /\ pass = [k \in PolicyKeys |-> IdlePass]
    /\ result = [k \in PolicyKeys |-> NoResult]
    /\ calls = [k \in PolicyKeys |-> <<>>]
    /\ snap = [k \in PolicyKeys |-> NoSnap]
    /\ finSeen = {}
    /\ fanout = NoFanout
    /\ sched = NoSched
    /\ env = 0
    /\ faults = MaxFaults
    /\ AsideIdle

EnvironmentPair ==
    \/ \E k \in PolicyKeys :
          \/ PolicyDelete(k)
          \/ EngineEdit(k)
          \/ \E opts \in EngineOptions : EngineCreate(k, opts)
    \/ \E ek \in EngineKeys : GarbageCollect(ek)

NextPair == Pass \/ EnvironmentPair

SpecPair == InitPair /\ [][NextPair]_vars

-----------------------------------------------------------------------------
(* The watch mappers: a target event is mapped to reconcile requests *)

TargetKinds == {"Gateway", "HTTPRoute"}
TargetNames == {"gw1", "r1"}

\* The order in which the store lists the policies: by namespace and name.
ListOrder == <<<<"ns1", "p1">>, <<"ns1", "p2">>, <<"ns2", "p1">>>>

\* r.List(&policies, client.InNamespace(namespace)): the keys of the items.
List(namespace) ==
    LET InNamespace(k) == policies[k].exists /\ k[1] = namespace IN
    SelectSeq(ListOrder, InNamespace)

\* Faulty variant: the kind of the target is not compared.
MatchesName(p, kind, name) == p.spec.name = name

\* The test of the loop of findPoliciesForTarget.
Matches(p, kind, name) == p.spec.kind = kind /\ p.spec.name = name

\* The loop of findPoliciesForTarget over the listed items.
RECURSIVE AppendMatching(_, _, _, _)
AppendMatching(items, kind, name, requests) ==
    IF items = <<>> THEN requests
    ELSE AppendMatching(Tail(items), kind, name,
                        IF Matches(policies[Head(items)], kind, name)
                        THEN Append(requests, Head(items))
                        ELSE requests)

\* Faulty variant: the error of the listing is not looked at.
findPoliciesForTargetUnchecked(kind, name, namespace, o) ==
    AppendMatching(List(namespace), kind, name, <<>>)

\* findPoliciesForTarget: nil when the listing fails.
findPoliciesForTarget(kind, name, namespace, o) ==
    IF o = "err" THEN <<>>
    ELSE AppendMatching(List(namespace), kind, name, <<>>)

\* findPoliciesForGateway / findPoliciesForHTTPRoute on an event of a target.
MapTargetEvent(kind, name, namespace, o) ==
    /\ fanout' = [kind |-> kind, name |-> name, namespace |-> namespace,
                  listed |-> (o = "ok"),
                  requests |-> findPoliciesForTarget(kind, name, namespace, o)]
    /\ UNCHANGED <<watched, policies, gateways, routes, engines, pass, result, calls,
                   snap, finSeen, env, faults, aside, sched>>

\* Any set of policies may be in the store when the event arrives, among them
\* a policy whose target has the name of a target of the other kind.
FanoutSpecs ==
    PolicySpecs \cup
    { [kind |-> "HTTPRoute", name |-> "gw1", ruleSet |-> "rs1", failurePolicy |-> "fail"] }

InitFanout ==
    /\ watched = {}
    /\ policies \in [PolicyKeys -> {NilPolicy} \cup {NewPolicy(s) : s \in FanoutSpecs}]
    /\ InitRest
    /\ sched = NoSched

NextFanout ==
    \E kind \in TargetKinds, name \in TargetNames, namespace \in Namespaces, o \in Outcomes :
        MapTargetEvent(kind, name, namespace, o)

SpecFanout == InitFanout /\ [][NextFanout]_vars

-----------------------------------------------------------------------------
(* createOrUpdate called for any desired object, the store holding any of    *)
(* the objects, with other writers at work between its calls.                *)

InitUpsert ==
    /\ watched = {}
    /\ policies = [j \in PolicyKeys |-> NilPolicy]
    /\ gateways = {}
    /\ routes = [r \in RouteKeys |-> NilRoute]
    /\ engines = [e \in EngineKeys |-> NilEngine]
    /\ pass = [k \in PolicyKeys |-> IdlePass]
    /\ result = [k \in PolicyKeys |-> NoResult]
    /\ calls = [k \in PolicyKeys |-> <<>>]
    /\ snap = [k \in PolicyKeys |-> NoSnap]
    /\ finSeen = {}
    /\ fanout = NoFanout
    /\ sched = NoSched
    /\ env = 0
    /\ faults = 0
    /\ objects \in [ObjectSlots -> {NilObject, [exists |-> TRUE, data |-> "a", rv |-> 1]}]
    /\ upsert = IdleUpsert
    /\ queue = IdleQueue
    /\ limiter = IdleLimiter
    /\ conditions = NoConditions
    /\ admission = NoAdmission

NextUpsert ==
    \/ \E d \in DesiredObjects : createOrUpdate(d)
    \/ \E o \in Outcomes : createOrUpdateGet(o)
    \/ \E o \in Outcomes : createOrUpdateCreate(o)
    \/ \E o \in Outcomes : createOrUpdateUpdate(o)
    \/ \E slot \in ObjectSlots, data \in Payloads : ObjectWrite(slot, data)
    \/ \E slot \in ObjectSlots : ObjectDelete(slot)

SpecUpsert == InitUpsert /\ [][NextUpsert]_vars

-----------------------------------------------------------------------------
(* A policy that leaves the store in the middle of a pass: besides the other *)
(* parties of Spec, one that clears the finalizers of a policy under         *)
(* deletion, on which the store removes the policy.  It acts once for each   *)
(* deletion a user has asked for.                                            *)

PolicyForget(k) ==
    /\ policies[k].exists
    /\ policies[k].deleting
    /\ OtherParty
    /\ policies' = [policies EXCEPT ![k] = NilPolicy]
    /\ UNCHANGED <<gateways, routes, engines, env>>

NextVanish ==
    \/ Pass
    \/ Environment
    \/ \E k \in PolicyKeys : PolicyForget(k)

SpecVanish == Init /\ [][NextVanish]_vars

-----------------------------------------------------------------------------
(* The two upserts with a writer in between: a pass for one policy whose     *)
(* Engine is that of an earlier spec of the policy, and createOrUpdate for   *)
(* an object in the store, while other writers edit the Engine and the       *)
(* object.  No store call fails transiently.                                 *)

ConflictKey == <<"ns1", "p1">>
ConflictSlot == <<"ConfigMap", "ns1", "obj">>
EarlierSpec == [kind |-> "Gateway", name |-> "gw1", ruleSet |-> "rs2", failurePolicy |-> "allow"]
LaterSpec == [kind |-> "Gateway", name |-> "gw1", ruleSet |-> "rs1", failurePolicy |-> "fail"]

InitConflict ==
    /\ watched = {ConflictKey}
    /\ policies = [j \in PolicyKeys |->
                     IF j = ConflictKey
                     THEN [NewPolicy(LaterSpec) EXCEPT !.generation = 2, !.rv = 2,
                                                       !.finalizers = {wafPolicyFinalizer}]
                     ELSE NilPolicy]
    /\ gateways = GatewayKeys
    /\ routes = [r \in RouteKeys |-> NilRoute]
    /\ engines = [e \in EngineKeys |->
                    IF e = EngineKeyOf(ConflictKey)
                    THEN [exists |-> TRUE,
                          spec |-> EngineSpecFor(NewPolicy(EarlierSpec), "gw1"),
                          owners |-> SetControllerReference({}, ConflictKey, 1), rv |-> 1]
                    ELSE NilEngine]
    /\ pass = [k \in PolicyKeys |-> IdlePass]
    /\ result = [k \in PolicyKeys |-> NoResult]
    /\ calls = [k \in PolicyKeys |-> <<>>]
    /\ snap = [k \in PolicyKeys |-> NoSnap]
    /\ finSeen = {ConflictKey}
    /\ fanout = NoFanout
    /\ sched = NoSched
    /\ env = 0
    /\ faults = MaxFaults
    /\ objects \in [ObjectSlots -> {NilObject, [exists |-> TRUE, data |-> "a", rv |-> 1]}]
    /\ upsert = IdleUpsert
    /\ queue = IdleQueue
    /\ limiter = IdleLimiter
    /\ conditions = NoConditions
    /\ admission = NoAdmission

NextConflict ==
    \/ \E o \in Outcomes : ReconcileGet(ConflictKey, o)
    \/ \E o \in Outcomes : ReconcileTarget(ConflictKey, o)
    \/ \E o \in Outcomes : EnsureEngineGet(ConflictKey, o)
    \/ \E o \in Outcomes : EnsureEngineUpdate(ConflictKey, o)
    \/ \E o \in Outcomes : EnsureEngineFailed(ConflictKey, o)
    \/ \E o \in Outcomes : EnsureEngineProgrammed(ConflictKey, o)
    \/ EngineEdit(ConflictKey)
    \/ \E data \in Payloads : createOrUpdate([apiVersion |-> "v1", kind |-> ConflictSlot[1],
                                              namespace |-> ConflictSlot[2],
                                              name |-> ConflictSlot[3], data |-> data, rv |-> 0])
    \/ \E o \in Outcomes : createOrUpdateGet(o)
    \/ \E o \in Outcomes : createOrUpdateCreate(o)
    \/ \E o \in Outcomes : createOrUpdateUpdate(o)
    \/ \E data \in Payloads : ObjectWrite(ConflictSlot, data)

SpecConflict == InitConflict /\ [][NextConflict]_vars

-----------------------------------------------------------------------------
(* The work queue by itself: watch events enqueue keys, workers take them,   *)
(* passes end in any way, and the controller requeues or forgets the key.    *)

InitQueue ==
    /\ watched = {}
    /\ policies = [j \in PolicyKeys |-> NilPolicy]
    /\ InitRest
    /\ sched = NoSched

NextQueue ==
    \/ \E k \in QueueKeys : Trigger(k)
    \/ \E k \in QueueKeys : DelayedAdd(k)
    \/ \E w \in Workers : WorkerGet(w)
    \/ \E w \in Workers, r \in PassResults : WorkerHandle(w, r)
    \/ \E w \in Workers : WorkerDone(w)

SpecQueue == InitQueue /\ [][NextQueue]_vars

-----------------------------------------------------------------------------
(* The controller's triggers (SetupWithManager).  A pass of a key starts only *)
(* when the work queue holds a request for the key.  Requests come from the   *)
(* watches: the policies (changes of generation only), the Engines (to the    *)
(* controlling policy), the Gateways and HTTPRoutes (to the policies found    *)
(* by findPoliciesForTarget), and from the rate limiter after an error or a   *)
(* Requeue.  Every change of the store, a pass's own writes included, reaches *)
(* the watches some time after it was made.                                   *)

\* What is left alone when a watch delivers an event; the event of a target
\* is recorded with the requests it was mapped to.
offSched == <<watched, policies, gateways, routes, engines, pass, result, calls, snap,
              finSeen, env, objects, upsert, queue, limiter, conditions, admission>>

\* The store as the watches see it.  The predicate on the policies lets an
\* update through only when the generation changed.
PolicyView(p) == IF p.exists THEN p.generation ELSE 0

StoreView ==
    [policies |-> [k \in PolicyKeys |-> PolicyView(policies[k])],
     engines |-> engines, gateways |-> gateways, routes |-> routes]

Delivered == sched.seen = StoreView

Elements(requests) == {requests[i] : i \in 1..Len(requests)}

\* For(WAFPolicy, GenerationChangedPredicate): the request is the object's key.
PolicyEvent(k) ==
    /\ sched.on
    /\ sched.seen.policies[k] # PolicyView(policies[k])
    /\ sched' = [sched EXCEPT !.seen.policies[k] = PolicyView(policies[k]),
                              !.ready = @ \cup {k}]
    /\ UNCHANGED <<faults, fanout, offSched>>

\* Faulty variant: an Engine's event is mapped to no policy.
ControllerOfNone(e, namespace) == {}

\* Owns(Engine): the request is for the WAFPolicy that controls the Engine.
ControllerOf(e, namespace) ==
    {<<namespace, o.name>> : o \in {r \in e.owners : r.kind = "WAFPolicy" /\ r.controller}}

EngineEvent(ek) ==
    /\ sched.on
    /\ sched.seen.engines[ek] # engines[ek]
    /\ sched' = [sched EXCEPT !.seen.engines[ek] = engines[ek],
                              !.ready = @ \cup ControllerOf(sched.seen.engines[ek], ek[1])
                                          \cup ControllerOf(engines[ek], ek[1])]
    /\ UNCHANGED <<faults, fanout, offSched>>

\* Watches(gateway, findPoliciesForGateway)
GatewayEvent(g, o) ==
    /\ sched.on
    /\ (g \in sched.seen.gateways) # (g \in gateways)
    /\ CanFail(o)
    /\ FaultStep(o)
    /\ fanout' = [kind |-> "Gateway", name |-> g[2], namespace |-> g[1],
                  listed |-> (o = "ok"),
                  requests |-> findPoliciesForTarget("Gateway", g[2], g[1], o)]
    /\ sched' = [sched EXCEPT !.seen.gateways = IF g \in gateways THEN @ \cup {g} ELSE @ \ {g},
                              !.ready = @ \cup Elements(fanout'.requests)]
    /\ UNCHANGED offSched

\* Watches(httproute, findPoliciesForHTTPRoute)
RouteEvent(r, o) ==
    /\ sched.on
    /\ sched.seen.routes[r] # routes[r]
    /\ CanFail(o)
    /\ FaultStep(o)
    /\ fanout' = [kind |-> "HTTPRoute", name |-> r[2], namespace |-> r[1],
                  listed |-> (o = "ok"),
                  requests |-> findPoliciesForTarget("HTTPRoute", r[2], r[1], o)]
    /\ sched' = [sched EXCEPT !.seen.routes[r] = routes[r],
                              !.ready = @ \cup Elements(fanout'.requests)]
    /\ UNCHANGED offSched

\* The rate limiter's delay of a key is over: the key is added to the queue.
Retry(k) ==
    /\ sched.on
    /\ k \in sched.retry
    /\ sched' = [sched EXCEPT !.retry = @ \ {k}, !.ready = @ \cup {k}]
    /\ UNCHANGED <<faults, fanout, offSched>>

\* A worker takes the request of k and calls Reconcile.
ScheduledGet(k, o) ==
    /\ k \in sched.ready
    /\ ReconcileGet(k, o)

\* Another party changes the store once the watches have delivered what came
\* before.
LiveShapes ==
    { [shape |-> "slice", refs |-> <<>>],
      [shape |-> "slice", refs |-> <<NotMapRef>>],
      [shape |-> "slice", refs |-> <<MapRef("string", "", "Gateway")>>],
      [shape |-> "slice", refs |-> <<MapRef("string", "gw1", "Gateway")>>] }

Changes ==
    /\ Delivered
    /\ \/ \E g \in GatewayKeys : GatewayCreate(g) \/ GatewayDelete(g)
       \/ \E r \in RouteKeys : RouteDelete(r) \/ \E sh \in LiveShapes : RouteSet(r, sh)
       \/ \E k \in PolicyKeys : PolicyDelete(k) \/ \E s \in PolicySpecs : PolicySpecChange(k, s)
       \/ EngineChanges
       \/ \E ek \in EngineKeys : GarbageCollect(ek)

LiveKey == <<"ns1", "p1">>

\* One policy is in the store, and its request is in the queue (the watch's
\* first listing); the HTTPRoute is in place or not.
InitLive ==
    /\ watched = {LiveKey}
    /\ policies \in {[j \in PolicyKeys |-> IF j = LiveKey THEN NewPolicy(s) ELSE NilPolicy] :
                        s \in PolicySpecs}
    /\ gateways = {}
    /\ routes \in {[r \in RouteKeys |-> x] : x \in {NilRoute, GoodRoute}}
    /\ engines = [e \in EngineKeys |-> NilEngine]
    /\ pass = [k \in PolicyKeys |-> IdlePass]
    /\ result = [k \in PolicyKeys |-> NoResult]
    /\ calls = [k \in PolicyKeys |-> <<>>]
    /\ snap = [k \in PolicyKeys |-> NoSnap]
    /\ finSeen = {}
    /\ fanout = NoFanout
    /\ env = 0
    /\ faults = 0
    /\ AsideIdle
    /\ sched = [on |-> TRUE, ready |-> {LiveKey}, retry |-> {},
                seen |-> [policies |-> [k \in PolicyKeys |-> PolicyView(policies[k])],
                          engines |-> engines, gateways |-> gateways, routes |-> routes]]

PassLive ==
    \E k \in PolicyKeys, o \in Outcomes :
        \/ ScheduledGet(k, o)
        \/ ReconcileAddFinalizer(k, o)
        \/ HandleDeletion(k, o)
        \/ ReconcileTarget(k, o)
        \/ SetNotAccepted(k, o)
        \/ EnsureEngineGet(k, o)
        \/ EnsureEngineCreate(k, o)
        \/ EnsureEngineUpdate(k, o)
        \/ EnsureEngineFailed(k, o)
        \/ EnsureEngineProgrammed(k, o)

Watch ==
    \/ \E k \in PolicyKeys : PolicyEvent(k)
    \/ \E ek \in EngineKeys : EngineEvent(ek)
    \/ \E g \in GatewayKeys, o \in Outcomes : GatewayEvent(g, o)
    \/ \E r \in RouteKeys, o \in Outcomes : RouteEvent(r, o)

Retries == \E k \in PolicyKeys : Retry(k)

NextLive == PassLive \/ Watch \/ Retries \/ Changes

\* The workers, the watches and the rate limiter's timers keep running; other
\* parties need not act.
SpecLive ==
    /\ InitLive
    /\ [][NextLive]_vars
    /\ WF_vars(PassLive)
    /\ WF_vars(Watch)
    /\ WF_vars(Retries)

\* The store's garbage collector: the owner cascade removes an Engine whose
\* controlling policy has left the store.
Cascade == \E ek \in EngineKeys : Delivered /\ GarbageCollect(ek)

\* The same system with a garbage collector that keeps running.
SpecCascade == SpecLive /\ WF_vars(Cascade)

\* The informers behind the watches list the store again from time to time
\* and hand every object they hold to its handler once more, as an update
\* that changes nothing.  GenerationChangedPredicate drops such an update of
\* a policy; the Engines, Gateways and HTTPRoutes have no predicate.
EngineResync(ek) ==
    /\ sched.on
    /\ engines[ek].exists
    /\ sched.seen.engines[ek] = engines[ek]
    /\ sched' = [sched EXCEPT !.ready = @ \cup ControllerOf(engines[ek], ek[1])]
    /\ UNCHANGED <<faults, fanout, offSched>>

GatewayResync(g, o) ==
    /\ sched.on
    /\ g \in gateways
    /\ g \in sched.seen.gateways
    /\ CanFail(o)
    /\ FaultStep(o)
    /\ fanout' = [kind |-> "Gateway", name |-> g[2], namespace |-> g[1],
                  listed |-> (o = "ok"),
                  requests |-> findPoliciesForTarget("Gateway", g[2], g[1], o)]
    /\ sched' = [sched EXCEPT !.ready = @ \cup Elements(fanout'.requests)]
    /\ UNCHANGED offSched

RouteResync(r, o) ==
    /\ sched.on
    /\ routes[r].exists
    /\ sched.seen.routes[r] = routes[r]
    /\ CanFail(o)
    /\ FaultStep(o)
    /\ fanout' = [kind |-> "HTTPRoute", name |-> r[2], namespace |-> r[1],
                  listed |-> (o = "ok"),
                  requests |-> findPoliciesForTarget("HTTPRoute", r[2], r[1], o)]
    /\ sched' = [sched EXCEPT !.ready = @ \cup Elements(fanout'.requests)]
    /\ UNCHANGED offSched

Resync ==
    \/ \E ek \in EngineKeys : EngineResync(ek)
    \/ \E g \in GatewayKeys, o \in Outcomes : GatewayResync(g, o)
    \/ \E r \in RouteKeys, o \in Outcomes : RouteResync(r, o)

NextResync == PassLive \/ Watch \/ Retries \/ Changes \/ Resync

\* The system of SpecLive with informers that resynchronise for ever.
SpecResync ==
    /\ InitLive
    /\ [][NextResync]_vars
    /\ WF_vars(PassLive)
    /\ WF_vars(Watch)
    /\ WF_vars(Retries)
    /\ WF_vars(Resync)

-----------------------------------------------------------------------------
(* The status setters setStatusReady, setStatusConditionDegraded and          *)
(* setStatusProgressing, called in any order on one condition list, with any  *)
(* generation and reason.  The list may hold a condition of another type.     *)

offStatus == <<watched, policies, gateways, routes, engines, pass, result, calls, snap,
               finSeen, fanout, env, faults, objects, upsert, queue, limiter, sched,
               admission>>

StatusReasons == {"Reconciled", "Reconciling", "RuleSetMissing", "CacheNotReady"}
StatusGenerations == 1..MaxGeneration
StatusMessage(reason) == "status: " \o reason

CallReady(g, r) ==
    /\ conditions' = [list |-> setStatusReady(conditions.list, g, r, StatusMessage(r)),
                      last |-> "setStatusReady"]
    /\ UNCHANGED offStatus

CallDegraded(g, r) ==
    /\ conditions' = [list |-> setStatusConditionDegraded(conditions.list, g, r, StatusMessage(r)),
                      last |-> "setStatusConditionDegraded"]
    /\ UNCHANGED offStatus

CallProgressing(g, r) ==
    /\ conditions' = [list |-> setStatusProgressing(conditions.list, g, r, StatusMessage(r)),
                      last |-> "setStatusProgressing"]
    /\ UNCHANGED offStatus

InitStatus ==
    /\ watched = {}
    /\ policies = [j \in PolicyKeys |-> NilPolicy]
    /\ gateways = {}
    /\ routes = [r \in RouteKeys |-> NilRoute]
    /\ engines = [e \in EngineKeys |-> NilEngine]
    /\ pass = [k \in PolicyKeys |-> IdlePass]
    /\ result = [k \in PolicyKeys |-> NoResult]
    /\ calls = [k \in PolicyKeys |-> <<>>]
    /\ snap = [k \in PolicyKeys |-> NoSnap]
    /\ finSeen = {}
    /\ fanout = NoFanout
    /\ env = 0
    /\ faults = 0
    /\ objects = [s \in ObjectSlots |-> NilObject]
    /\ upsert = IdleUpsert
    /\ queue = IdleQueue
    /\ limiter = IdleLimiter
    /\ sched = NoSched
    /\ conditions \in {NoConditions,
                       [list |-> <<Condition("Accepted", "True", 1, "Accepted", "")>>,
                        last |-> ""]}
    /\ admission = NoAdmission

NextStatus ==
    \/ \E g \in StatusGenerations, r \in StatusReasons : CallReady(g, r)
    \/ \E g \in StatusGenerations, r \in StatusReasons : CallDegraded(g, r)
    \/ \E g \in StatusGenerations, r \in StatusReasons : CallProgressing(g, r)

SpecStatus == InitStatus /\ [][NextStatus]_vars

-----------------------------------------------------------------------------
(* Admission: the store validates the targetRef of a policy that a user       *)
(* creates or changes against the rules of the WAFPolicy type.                *)

GatewayGroup == "gateway.networking.k8s.io"
TargetGroups == {GatewayGroup, "apps"}

\* What users ask for: the policies of the other specifications, and one that
\* targets a Service.
RequestedSpecs ==
    PolicySpecs \cup
    { [kind |-> "Service", name |-> "gw1", ruleSet |-> "rs1", failurePolicy |-> "fail"] }

\* Faulty variant: no rule is checked.
AdmissionErrorNone(group, spec) == <<>>

\* The XValidation rules on spec.targetRef.  Each rule is evaluated on its
\* own: the error lists the message of every rule that fails, in the order of
\* the rules, and is empty when the object is admitted.
AdmissionError(group, spec) ==
    (IF group # GatewayGroup
     THEN <<"targetRef.group must be gateway.networking.k8s.io">> ELSE <<>>)
    \o
    (IF ~(spec.kind = "Gateway" \/ spec.kind = "HTTPRoute")
     THEN <<"targetRef.kind must be Gateway or HTTPRoute">> ELSE <<>>)

\* A user's request changes the store like any other party's change.
UserStep ==
    /\ env < MaxEnv
    /\ env' = env + 1
    /\ Disturb
    /\ calls' = [j \in PolicyKeys |-> IF pass[j].pc = "idle" THEN <<>> ELSE calls[j]]
    /\ result' = [j \in PolicyKeys |-> IF pass[j].pc = "idle" THEN NoResult ELSE result[j]]
    /\ UNCHANGED <<pass, finSeen, watched, fanout, faults, sched, gateways, routes, engines,
                   objects, upsert, queue, limiter, conditions>>

\* k8sClient.Create(policy).  The store never hands out a resourceVersion
\* again: the new object's differs from the one a pass in flight has read
\* from an earlier object of the same name.  Nor a UID: admission.issued is
\* the last one handed out.
PolicyCreate(k, group, spec) ==
    /\ k \in watched
    /\ ~policies[k].exists
    /\ UserStep
    /\ admission' = [key |-> k, group |-> group, spec |-> spec,
                     err |-> AdmissionError(group, spec),
                     issued |-> IF AdmissionError(group, spec) = <<>>
                                THEN admission.issued + 1 ELSE admission.issued]
    /\ policies' = IF AdmissionError(group, spec) = <<>>
                   THEN [policies EXCEPT ![k] =
                           [NewPolicy(spec) EXCEPT !.rv = pass[k].pol.rv + 1,
                                                   !.uid = admission.issued + 1]]
                   ELSE policies

\* An update of the policy's spec goes through the same rules.
PolicyUpdate(k, group, spec) ==
    /\ policies[k].exists
    /\ ~policies[k].deleting
    /\ policies[k].spec # spec
    /\ policies[k].generation < MaxGeneration
    /\ UserStep
    /\ admission' = [key |-> k, group |-> group, spec |-> spec,
                     err |-> AdmissionError(group, spec), issued |-> admission.issued]
    /\ policies' = IF AdmissionError(group, spec) = <<>>
                   THEN [policies EXCEPT ![k].spec = spec, ![k].generation = @ + 1,
                                         ![k].rv = @ + 1]
                   ELSE policies

Requests ==
    \E k \in PolicyKeys, group \in TargetGroups, spec \in RequestedSpecs :
        \/ PolicyCreate(k, group, spec)
        \/ PolicyUpdate(k, group, spec)

NextAdmission == Pass \/ Environment \/ Requests

\* The policy in the store at first, if any, is one that was admitted.
SpecAdmission == Init /\ [][NextAdmission]_vars

\* The same steps from a store whose policy may have had its spec changed
\* before: its generation is any of the generations within bounds.  The
\* Gateway is there from the start or not.
InitStamp ==
    /\ \E k \in PolicyKeys :
          /\ watched = {k}
          /\ policies \in {[j \in PolicyKeys |-> IF j = k THEN p ELSE NilPolicy] :
                              p \in {NilPolicy} \cup
                                    {[NewPolicy(s) EXCEPT !.generation = g, !.rv = g] :
                                        s \in PolicySpecs, g \in StatusGenerations}}
    /\ gateways \in {{}, GatewayKeys}
    /\ InitIdle
    /\ sched = NoSched

\* Besides the users' requests, the party that clears the finalizers of a
\* policy under deletion: a policy can leave the store and come back under
\* the same name while a pass that read it is in flight.
NextStamp ==
    \/ Pass
    \/ Environment
    \/ Requests
    \/ \E k \in PolicyKeys : PolicyForget(k)

SpecStamp == InitStamp /\ [][NextStamp]_vars

-----------------------------------------------------------------------------
(* Properties.  The record of calls of a key describes its pass in flight or *)
(* its last finished pass; result[k].done says that the pass has returned.   *)

NCalls(k) == Len(calls[k])

\* The Engine names a policy of the name of k's as its controller, whether or
\* not that policy is still in the store.
NamesController(engine, k) ==
    \E o \in engine.owners : o.controller /\ o.kind = "WAFPolicy" /\ o.name = k[2]
LastCall(k) == calls[k][Len(calls[k])]

\* The pass of k started by fetching the policy in one of the given states.
Fetched(k, observed) ==
    /\ NCalls(k) >= 1
    /\ calls[k][1].kind = "WAFPolicy"
    /\ calls[k][1].op = "Get"
    /\ calls[k][1].res = ""
    /\ calls[k][1].obs \in observed

CondIs(conds, type, status) ==
    \E i \in 1..Len(conds) : conds[i].type = type /\ conds[i].status = status
CondAbsent(conds, type) == \A i \in 1..Len(conds) : conds[i].type # type

\* The pass of k has returned, no store call of it failed transiently and no
\* other party changed the store from its start until now.
Undisturbed(k) == result[k].done /\ snap[k].n >= 1

\* The target of the policy of k resolves to a gateway name.
Resolvable(k) ==
    LET spec == policies[k].spec
        rk == <<k[1], spec.name>> IN
    /\ policies[k].exists
    /\ \/ spec.kind = "Gateway" /\ rk \in gateways
       \/ /\ spec.kind = "HTTPRoute"
          /\ rk \in RouteKeys
          /\ routes[rk].exists
          /\ routes[rk].shape = "slice"
          /\ Len(routes[rk].refs) >= 1
          /\ routes[rk].refs[1].isMap
          /\ routes[rk].refs[1].nameKind = "string"
          /\ routes[rk].refs[1].name # ""

-----------------------------------------------------------------------------
(* C1: idempotence *)

\* Two condition lists agree on type, status, reason and observedGeneration of
\* every condition, and on every message but that of Programmed.
SameButProgrammedMessage(a, b) ==
    /\ Len(a) = Len(b)
    /\ \A i \in 1..Len(a) :
          /\ a[i].type = b[i].type
          /\ a[i].status = b[i].status
          /\ a[i].reason = b[i].reason
          /\ a[i].observedGeneration = b[i].observedGeneration
          /\ a[i].type # "Programmed" => a[i].message = b[i].message

\* C1 as claimed: for a policy with a resolvable target, two passes in
\* succession with no change by another party in between leave, after the
\* second, the same Engine spec and the same condition set (types, statuses,
\* reasons, messages, observedGeneration) as after the first.
C1_IdempotenceWithMessages ==
    \A k \in PolicyKeys :
        snap[k].n = 2 /\ Resolvable(k) => snap[k].last = snap[k].prev

\* C1 as amended: for a policy with a resolvable target, two passes in
\* succession with no change by another party in between leave, after the
\* second, the same Engine (present or not, same spec) and the same conditions
\* in type, status, reason and observedGeneration, and the same messages but
\* that of Programmed, which names what the upsert of the pass did: it is
\* "unchanged" after a second pass that reports Programmed.
C1_Idempotence ==
    \A k \in PolicyKeys :
        snap[k].n = 2 /\ Resolvable(k) =>
            /\ snap[k].last.engineExists = snap[k].prev.engineExists
            /\ snap[k].last.spec = snap[k].prev.spec
            /\ SameButProgrammedMessage(snap[k].last.conds, snap[k].prev.conds)
            /\ result[k].done /\ LastCall(k).obs = "programmed" =>
                  \A i \in 1..Len(snap[k].last.conds) :
                      LET c == snap[k].last.conds[i] IN
                      c.type = "Programmed" =>
                          c.message = "Engine \"wafpolicy-" \o k[2] \o "\" unchanged"

\* C1's case: a second undisturbed pass after the pass that created the Engine.
C1_Witness ==
    \E k \in PolicyKeys :
        /\ snap[k].n = 2
        /\ Resolvable(k)
        /\ snap[k].last.engineExists
        /\ CondIs(snap[k].last.conds, "Programmed", "True")
        /\ CondIs(snap[k].prev.conds, "Programmed", "True")
        /\ snap[k].last.conds # snap[k].prev.conds

-----------------------------------------------------------------------------
(* C2: finalizer ordering *)

\* C2: in a pass that fetched a policy with no deletion request and no
\* finalizer, the second store call is the Update that writes the finalizer,
\* and every later call of the pass (target lookup, Engine call, status patch)
\* comes after that Update has succeeded; no condition and no Engine owned by
\* a policy exists unless the policy's finalizer was persisted at some time.
C2_FinalizerFirst ==
    \A k \in PolicyKeys :
        /\ Fetched(k, {"nofin"}) =>
              /\ NCalls(k) >= 2 =>
                    /\ calls[k][2].op = "Update"
                    /\ calls[k][2].kind = "WAFPolicy"
                    /\ calls[k][2].key = k
                    /\ calls[k][2].obs = "addFinalizer"
              /\ NCalls(k) >= 3 => calls[k][2].res = ""
              /\ ~result[k].done /\ NCalls(k) = 1 => pass[k].pc = "addfin"
        /\ policies[k].conds # <<>> => k \in finSeen
        /\ (\E ek \in EngineKeys :
               /\ engines[ek].exists
               /\ ek[1] = k[1]
               /\ \E o \in engines[ek].owners :
                     o.kind = "WAFPolicy" /\ o.name = k[2]) => k \in finSeen

\* C2's case: a pass that found no finalizer went on to create the Engine and
\* to write the status.
C2_Witness ==
    \E k \in PolicyKeys :
        /\ Fetched(k, {"nofin"})
        /\ result[k].done
        /\ \E i \in 1..NCalls(k) :
              calls[k][i].kind = "Engine" /\ calls[k][i].op = "Create" /\ calls[k][i].res = ""
        /\ LastCall(k).kind = "WAFPolicyStatus"
        /\ LastCall(k).res = ""
        /\ wafPolicyFinalizer \in policies[k].finalizers

-----------------------------------------------------------------------------
(* C3: the deletion pass *)

Deleting == {"deleting+fin", "deleting"}

\* The record of a pass that fetched a policy under deletion.
DeletionPassRecord(k) ==
    /\ NCalls(k) <= 2
    /\ calls[k][1].obs = "deleting" => NCalls(k) = 1
    /\ NCalls(k) = 2 =>
          /\ calls[k][2].op = "Update"
          /\ calls[k][2].kind = "WAFPolicy"
          /\ calls[k][2].key = k
          /\ calls[k][2].obs = "removeFinalizer"
    /\ \A i \in 1..NCalls(k) :
          calls[k][i].kind \notin {"Gateway", "HTTPRoute", "Engine", "WAFPolicyStatus"}
    /\ ~result[k].done => calls[k][1].obs = "deleting+fin" /\ pass[k].pc = "rmfin"
    /\ result[k].done =>
          /\ ~result[k].requeue
          /\ NCalls(k) = 1 => result[k].err = ""
          /\ NCalls(k) = 2 => result[k].err = calls[k][2].res

\* The step that ends a deletion pass of k changes nothing in the store but,
\* when its Update succeeds, the policy of k: the core's finalizer is gone
\* (and with the last finalizer the policy), everything else is as it was.
DeletionStepFrame(k) ==
    pass[k].pc = "rmfin" /\ pass'[k].pc = "idle" =>
        /\ gateways' = gateways
        /\ routes' = routes
        /\ engines' = engines
        /\ \A j \in PolicyKeys \ {k} : policies'[j] = policies[j]
        /\ \/ policies'[k] = policies[k] /\ calls'[k][2].res # ""
           \/ /\ calls'[k][2].res = ""
              /\ policies[k].finalizers = {wafPolicyFinalizer}
              /\ policies'[k] = NilPolicy
           \/ /\ calls'[k][2].res = ""
              /\ policies[k].finalizers # {wafPolicyFinalizer}
              /\ policies'[k] = [policies[k] EXCEPT
                                   !.finalizers = @ \ {wafPolicyFinalizer},
                                   !.rv = @ + 1]

\* C3: a pass that fetches a policy whose deletion has been requested makes at
\* most one store write, the Update that removes the core's finalizer (none if
\* the finalizer is absent); it looks up no target, makes no Engine call and
\* no status patch, changes nothing else in the store, never asks for a
\* requeue, and returns success unless that Update fails, whose error it
\* returns.
C3_DeletionPass ==
    /\ [](\A k \in PolicyKeys : Fetched(k, Deleting) => DeletionPassRecord(k))
    /\ [][\A k \in PolicyKeys : DeletionStepFrame(k)]_vars

\* C3's case: a deletion pass has removed the finalizer of a policy that had
\* an Engine; the policy is gone and the Engine is as it was.
C3_Witness ==
    \E k \in PolicyKeys :
        /\ Fetched(k, {"deleting+fin"})
        /\ result[k] = Result(FALSE, "")
        /\ NCalls(k) = 2
        /\ calls[k][2].res = ""
        /\ ~policies[k].exists
        /\ engines[EngineSlot(k)].exists
        /\ NamesController(engines[EngineSlot(k)], k)

-----------------------------------------------------------------------------
(* C4: the name of the Engine *)

\* C4: every Engine call made for policy P names the Engine "wafpolicy-" +
\* P.name in P.namespace, and an Engine controlled by a policy has the name
\* made of that policy's name; hence the passes of two distinct policies never
\* call the same Engine.
C4_DeterministicNaming ==
    /\ \A k \in PolicyKeys : \A i \in 1..NCalls(k) :
          calls[k][i].kind = "Engine" =>
              calls[k][i].key = <<k[1], "wafpolicy-" \o k[2]>>
    /\ \A ek \in EngineKeys : \A o \in engines[ek].owners :
          o.kind = "WAFPolicy" => ek[2] = "wafpolicy-" \o o.name
    /\ \A k1, k2 \in PolicyKeys : \A i \in 1..NCalls(k1) : \A j \in 1..NCalls(k2) :
          /\ k1 # k2
          /\ calls[k1][i].kind = "Engine"
          /\ calls[k2][j].kind = "Engine"
          => calls[k1][i].key # calls[k2][j].key

\* C4's case: the passes of two policies of one namespace have each created
\* their Engine.
C4_Witness ==
    \E k1, k2 \in PolicyKeys :
        /\ k1 # k2
        /\ k1[1] = k2[1]
        /\ \E i \in 1..NCalls(k1) :
              calls[k1][i].kind = "Engine" /\ calls[k1][i].op = "Create" /\ calls[k1][i].res = ""
        /\ \E j \in 1..NCalls(k2) :
              calls[k2][j].kind = "Engine" /\ calls[k2][j].op = "Create" /\ calls[k2][j].res = ""
        /\ engines[<<k1[1], "wafpolicy-" \o k1[2]>>].exists
        /\ engines[<<k2[1], "wafpolicy-" \o k2[2]>>].exists

-----------------------------------------------------------------------------
(* C5: Accepted=False excludes Programmed *)

\* C5: after a pass has persisted Accepted=False, the stored conditions hold
\* Accepted=False and no Programmed condition; and no stored status ever holds
\* Programmed=True together with Accepted=False.
C5_MutualExclusion ==
    \A k \in PolicyKeys :
        /\ ~(CondIs(policies[k].conds, "Programmed", "True")
             /\ CondIs(policies[k].conds, "Accepted", "False"))
        /\ (/\ result[k].done
            /\ NCalls(k) >= 1
            /\ LastCall(k).obs = "setNotAccepted"
            /\ LastCall(k).res = "")
           => /\ CondIs(policies[k].conds, "Accepted", "False")
              /\ CondAbsent(policies[k].conds, "Programmed")

\* C5's case: a policy that was programmed (its Engine is there) lost its
\* target, and the pass has persisted Accepted=False.
C5_Witness ==
    \E k \in PolicyKeys :
        /\ result[k].done
        /\ LastCall(k).obs = "setNotAccepted"
        /\ LastCall(k).res = ""
        /\ engines[EngineSlot(k)].exists
        /\ OwnerRefOf(k) \in engines[EngineSlot(k)].owners
        /\ CondIs(policies[k].conds, "Accepted", "False")

-----------------------------------------------------------------------------
(* C6: the fan-out of a target event *)

\* C6: when the listing succeeds, the requests for an event of a target of
\* kind K and name M in namespace N are the keys of exactly the policies of N
\* whose targetRef has kind K and name M, each once.
C6_FanoutExact ==
    fanout.listed =>
        /\ {fanout.requests[i] : i \in 1..Len(fanout.requests)} =
              {k \in PolicyKeys :
                  /\ policies[k].exists
                  /\ k[1] = fanout.namespace
                  /\ policies[k].spec.kind = fanout.kind
                  /\ policies[k].spec.name = fanout.name}
        /\ \A i, j \in 1..Len(fanout.requests) :
              fanout.requests[i] = fanout.requests[j] => i = j

\* C6's case: the event matches a policy of its namespace, while a policy of
\* the same namespace with another target and a policy of another namespace
\* with the same target are in the store.
C6_Witness ==
    /\ fanout.listed
    /\ Len(fanout.requests) >= 1
    /\ \E k \in PolicyKeys :
          /\ policies[k].exists
          /\ k[1] = fanout.namespace
          /\ policies[k].spec.name = fanout.name
          /\ policies[k].spec.kind # fanout.kind
    /\ \E k \in PolicyKeys :
          /\ policies[k].exists
          /\ k[1] # fanout.namespace
          /\ policies[k].spec.kind = fanout.kind
          /\ policies[k].spec.name = fanout.name

-----------------------------------------------------------------------------
(* C7: the Gateway success path *)

\* An undisturbed pass for a policy that is not under deletion and targets a
\* Gateway that exists in the policy's namespace.
GatewayPass(k) ==
    /\ Undisturbed(k)
    /\ Fetched(k, {"nofin", "fin"})
    /\ policies[k].exists
    /\ policies[k].spec.kind = "Gateway"
    /\ <<k[1], policies[k].spec.name>> \in gateways

\* What C7 says such a pass leaves behind.
GatewayPassOutcome(k) ==
    LET engine == engines[<<k[1], "wafpolicy-" \o k[2]>>] IN
    /\ engine.exists
    /\ engine.spec.matchLabels =
          {<<"gateway.networking.k8s.io/gateway-name", policies[k].spec.name>>}
    /\ engine.spec.ruleSet.name = policies[k].spec.ruleSet
    /\ engine.spec.failurePolicy = policies[k].spec.failurePolicy
    /\ engine.spec.image = DefaultWasmImage
    /\ engine.spec.pollIntervalSeconds = DefaultPollInterval
    /\ engine.spec.mode = "gateway"
    /\ CondIs(policies[k].conds, "Accepted", "True")
    /\ CondIs(policies[k].conds, "Programmed", "True")

\* C7: when a policy targets Gateway G, G exists in the policy's namespace and
\* no store call fails, one pass leaves the Engine "wafpolicy-<policy name>"
\* in that namespace with workload selector {gateway-name: G}, ruleSet name
\* and failurePolicy of the policy, image and poll interval of the translator
\* config and mode "gateway", and the conditions Accepted=True and
\* Programmed=True.
C7_GatewaySuccess ==
    \A k \in PolicyKeys : GatewayPass(k) => GatewayPassOutcome(k)

\* C7's case: the pass has created the Engine for a policy whose failurePolicy
\* is not the default one.
C7_Witness ==
    \E k \in PolicyKeys :
        /\ GatewayPass(k)
        /\ \E i \in 1..NCalls(k) :
              calls[k][i].kind = "Engine" /\ calls[k][i].op = "Create" /\ calls[k][i].res = ""
        /\ policies[k].spec.failurePolicy = "allow"
        /\ engines[<<k[1], "wafpolicy-" \o k[2]>>].spec.failurePolicy = "allow"
        /\ CondIs(policies[k].conds, "Programmed", "True")

-----------------------------------------------------------------------------
(* C8: the target is missing *)

\* The lookup of the target in the record of the pass of k, if it failed with
\* not-found.
TargetMissing(k, i) ==
    /\ i \in 1..NCalls(k)
    /\ calls[k][i].op = "Get"
    /\ calls[k][i].kind \in {"Gateway", "HTTPRoute"}
    /\ calls[k][i].res = "NotFound"

\* C8: a pass whose lookup of the target (Gateway or HTTPRoute) returns
\* not-found makes no Engine call at all and asks for a requeue; when its
\* status patch succeeds the stored conditions are exactly Accepted=False with
\* reason TargetNotFound, naming the target, and the pass returns no error;
\* when the patch fails the pass returns the patch's error.
C8_MissingTarget ==
    \A k \in PolicyKeys : \A i \in 1..NCalls(k) :
        TargetMissing(k, i) =>
            /\ \A j \in 1..NCalls(k) : calls[k][j].kind # "Engine"
            /\ NCalls(k) <= i + 1
            /\ ~result[k].done => pass[k].pc = "notacc" /\ NCalls(k) = i
            /\ result[k].done =>
                  /\ NCalls(k) = i + 1
                  /\ LastCall(k).op = "Patch"
                  /\ LastCall(k).kind = "WAFPolicyStatus"
                  /\ LastCall(k).key = k
                  /\ result[k] = Result(TRUE, LastCall(k).res)
                  /\ LastCall(k).res = "" =>
                        /\ Len(policies[k].conds) = 1
                        /\ policies[k].conds[1].type = "Accepted"
                        /\ policies[k].conds[1].status = "False"
                        /\ policies[k].conds[1].reason = "TargetNotFound"
                        /\ policies[k].conds[1].message =
                              calls[k][i].kind \o " \"" \o calls[k][i].key[2]
                                 \o "\" not found"

\* C8's case: a policy that was programmed lost its Gateway; the pass has
\* returned requeue and the Programmed condition is gone.
C8_Witness ==
    \E k \in PolicyKeys : \E i \in 1..NCalls(k) :
        /\ TargetMissing(k, i)
        /\ calls[k][i].kind = "Gateway"
        /\ result[k] = Result(TRUE, "")
        /\ engines[EngineSlot(k)].exists
        /\ OwnerRefOf(k) \in engines[EngineSlot(k)].owners
        /\ Len(policies[k].conds) = 1
        /\ policies[k].conds[1].reason = "TargetNotFound"

-----------------------------------------------------------------------------
(* C9: the resolution of an HTTPRoute *)

\* The successful lookup of the HTTPRoute in the record of the pass of k.
RouteFound(k, i) ==
    /\ i \in 1..NCalls(k)
    /\ calls[k][i].op = "Get"
    /\ calls[k][i].kind = "HTTPRoute"
    /\ calls[k][i].res = ""

\* The three kinds of parentRefs the claim tells apart.
NoParentRefs(route) == route.shape \in {"absent", "notslice"} \/ Len(route.refs) = 0
BadFirstParentRef(route) ==
    /\ route.shape = "slice"
    /\ Len(route.refs) >= 1
    /\ \/ ~route.refs[1].isMap
       \/ route.refs[1].nameKind # "string"
       \/ route.refs[1].name = ""
NamedFirstParentRef(route) ==
    /\ route.shape = "slice"
    /\ Len(route.refs) >= 1
    /\ route.refs[1].isMap
    /\ route.refs[1].nameKind = "string"
    /\ route.refs[1].name # ""

\* The pass of k has ended by persisting exactly Accepted=False with the
\* reason, without any Engine call, asking for no requeue.
RejectedWith(k, reason) ==
    /\ LastCall(k).obs = "setNotAccepted"
    /\ LastCall(k).res = ""
    /\ result[k] = Result(FALSE, "")
    /\ \A j \in 1..NCalls(k) : calls[k][j].kind # "Engine"
    /\ Len(policies[k].conds) = 1
    /\ policies[k].conds[1].type = "Accepted"
    /\ policies[k].conds[1].status = "False"
    /\ policies[k].conds[1].reason = reason

\* C9: an undisturbed pass for a policy that targets an existing HTTPRoute
\* ends according to the route's parentRefs: absent, not a list or empty gives
\* Accepted=False/NoParentGateway; a first entry that is not a map or has no
\* name (or an empty one, or one that is not a string) gives
\* Accepted=False/InvalidParentRef; otherwise the pass goes on to the Engine
\* and, when it reports Programmed, the Engine's workload selector is
\* {gateway-name: name of the first entry}.  No pass that ends in
\* setNotAccepted has made an Engine call.
C9_RouteResolution ==
    \A k \in PolicyKeys :
        /\ (NCalls(k) >= 1 /\ LastCall(k).obs = "setNotAccepted")
              => \A j \in 1..NCalls(k) : calls[k][j].kind # "Engine"
        /\ \A i \in 1..NCalls(k) :
              RouteFound(k, i) /\ Undisturbed(k) =>
                 LET route == routes[calls[k][i].key] IN
                 /\ NoParentRefs(route) => RejectedWith(k, "NoParentGateway")
                 /\ BadFirstParentRef(route) => RejectedWith(k, "InvalidParentRef")
                 /\ NamedFirstParentRef(route) =>
                       /\ LastCall(k).obs \in {"programmed", "syncFailed"}
                       /\ calls[k][i + 1].kind = "Engine"
                       /\ LastCall(k).obs = "programmed" =>
                             /\ engines[<<k[1], "wafpolicy-" \o k[2]>>].spec.matchLabels =
                                   {<<"gateway.networking.k8s.io/gateway-name",
                                      route.refs[1].name>>}
                             /\ CondIs(policies[k].conds, "Accepted", "True")
                             /\ CondIs(policies[k].conds, "Programmed", "True")

\* C9's case: the route has two parentRefs and the Engine created by the pass
\* selects the gateway the first of them names.
C9_Witness ==
    \E k \in PolicyKeys : \E i \in 1..NCalls(k) :
        /\ RouteFound(k, i)
        /\ Undisturbed(k)
        /\ Len(routes[calls[k][i].key].refs) = 2
        /\ routes[calls[k][i].key].refs[1].name # routes[calls[k][i].key].refs[2].name
        /\ LastCall(k).obs = "programmed"
        /\ \E j \in 1..NCalls(k) :
              calls[k][j].kind = "Engine" /\ calls[k][j].op = "Create" /\ calls[k][j].res = ""
        /\ engines[EngineSlot(k)].spec.matchLabels =
              {<<GatewayNameLabel, routes[calls[k][i].key].refs[1].name>>}

-----------------------------------------------------------------------------
(* C10: the policy is absent *)

\* The record of a pass of k whose fetch of the policy returned not-found.
AbsentRecord(log) ==
    /\ Len(log) >= 1
    /\ log[1].op = "Get"
    /\ log[1].kind = "WAFPolicy"
    /\ log[1].res = "NotFound"

\* The step is a pass of k whose fetch of the policy returns not-found.
AbsentPassStep(k) ==
    /\ pass[k].pc = "idle"
    /\ AbsentRecord(calls'[k])
    /\ calls'[k] # calls[k] \/ snap'[k] # snap[k]

\* C10: a pass whose fetch of the policy returns not-found makes no other
\* store call, changes nothing in the store, and returns success with no
\* requeue and no error.
C10_AbsentPolicy ==
    /\ [](\A k \in PolicyKeys :
            AbsentRecord(calls[k]) =>
                /\ NCalls(k) = 1
                /\ pass[k].pc = "idle"
                /\ result[k] = Result(FALSE, ""))
    /\ [][\A k \in PolicyKeys :
            AbsentPassStep(k) =>
                /\ policies' = policies
                /\ gateways' = gateways
                /\ routes' = routes
                /\ engines' = engines]_vars

\* C10's case: the policy has left the store after its deletion pass, its
\* Engine is still there, and the next pass has found the policy absent.
C10_Witness ==
    \E k \in PolicyKeys :
        /\ AbsentRecord(calls[k])
        /\ result[k].done
        /\ ~policies[k].exists
        /\ engines[EngineSlot(k)].exists
        /\ NamesController(engines[EngineSlot(k)], k)

-----------------------------------------------------------------------------
(* C11: the lifecycle of Accepted *)

\* The step ends the pass of k with a status patch that the store accepted,
\* made on the given code path.
Patched(k, path) ==
    /\ pass[k].pc # "idle"
    /\ pass'[k].pc = "idle"
    /\ Len(calls'[k]) = Len(calls[k]) + 1
    /\ calls'[k][Len(calls'[k])].op = "Patch"
    /\ calls'[k][Len(calls'[k])].res = ""
    /\ calls'[k][Len(calls'[k])].obs = path

\* The pass of k in flight has fetched its target and found it.
TargetFetched(k) ==
    \E i \in 1..Len(calls[k]) :
        /\ calls[k][i].op = "Get"
        /\ calls[k][i].kind \in {"Gateway", "HTTPRoute"}
        /\ calls[k][i].res = ""

\* The pass of k in flight has brought the Engine in sync: it created it,
\* updated it, or found it equal to the desired one.
EngineSynced(k) ==
    LET n == Len(calls[k]) IN
    /\ n >= 1
    /\ calls[k][n].kind = "Engine"
    /\ \/ calls[k][n].op \in {"Create", "Update"} /\ calls[k][n].res = ""
       \/ calls[k][n].op = "Get" /\ calls[k][n].res = "" /\ pass[k].op = "unchanged"

ResolutionReasons == {"TargetNotFound", "NoParentGateway", "InvalidParentRef", "InvalidTargetRef"}

AcceptedOf(conds) == LET IsAccepted(c) == c.type = "Accepted" IN SelectSeq(conds, IsAccepted)

HasReason(conds, type, status, reason) ==
    \E i \in 1..Len(conds) :
        conds[i].type = type /\ conds[i].status = status /\ conds[i].reason = reason

\* Where Accepted=True enters the stored status, target resolution and the
\* Engine upsert have both succeeded in the pass that writes it.
AcceptedTrueStep(k) ==
    (~CondIs(policies[k].conds, "Accepted", "True") /\ CondIs(policies'[k].conds, "Accepted", "True"))
        => (Patched(k, "programmed") /\ TargetFetched(k) /\ EngineSynced(k))

\* A pass whose target resolution failed stores Accepted=False with the reason
\* of the failure.
RejectedStep(k) ==
    Patched(k, "setNotAccepted")
        => /\ pass[k].reason \in ResolutionReasons
           /\ HasReason(policies'[k].conds, "Accepted", "False", pass[k].reason)

\* C11 as stated: a pass whose Engine upsert failed stores Accepted=False with
\* reason EngineSyncFailed.
C11_SyncFailureOnAccepted ==
    [][\A k \in PolicyKeys :
          /\ AcceptedTrueStep(k)
          /\ RejectedStep(k)
          /\ Patched(k, "syncFailed")
                => HasReason(policies'[k].conds, "Accepted", "False", "EngineSyncFailed")]_vars

\* C11, amended: Accepted=True is written only by a pass in which target
\* resolution and the Engine upsert both succeeded; a pass whose target
\* resolution failed writes Accepted=False with one of the reasons
\* TargetNotFound, NoParentGateway, InvalidParentRef, InvalidTargetRef; a pass
\* whose Engine upsert failed writes Programmed=False with reason
\* EngineSyncFailed and leaves Accepted as it read it.
C11_AcceptedLifecycle ==
    [][\A k \in PolicyKeys :
          /\ AcceptedTrueStep(k)
          /\ RejectedStep(k)
          /\ Patched(k, "syncFailed")
                => /\ HasReason(policies'[k].conds, "Programmed", "False", "EngineSyncFailed")
                   /\ AcceptedOf(policies'[k].conds) = AcceptedOf(pass[k].pol.conds)
                   /\ ~HasReason(policies'[k].conds, "Accepted", "False", "EngineSyncFailed")]_vars

\* A pass of an accepted policy has failed to bring the Engine in sync and has
\* said so in the status.
C11_Witness ==
    \E k \in PolicyKeys :
        /\ result[k].done /\ result[k].err # ""
        /\ NCalls(k) >= 1
        /\ LastCall(k).op = "Patch" /\ LastCall(k).obs = "syncFailed" /\ LastCall(k).res = ""
        /\ CondIs(policies[k].conds, "Accepted", "True")
        /\ CondIs(policies[k].conds, "Programmed", "False")

-----------------------------------------------------------------------------
(* C12: the lifecycle of Programmed *)

UpsertResults == {"created", "updated", "unchanged"}

\* The stored Programmed condition of k has the given status and names the
\* Engine of k and one of the given results of the upsert.
ProgrammedNames(k, status, ops) ==
    \E i \in 1..Len(policies[k].conds) : \E op \in ops :
        /\ policies[k].conds[i].type = "Programmed"
        /\ policies[k].conds[i].status = status
        /\ policies[k].conds[i].message = "Engine " \o Quote("wafpolicy-" \o k[2]) \o " " \o op

\* C12 as stated: a stored Programmed condition comes with Accepted=True and
\* its message names the Engine and the operation performed.
C12_ProgrammedImpliesAccepted ==
    \A k \in PolicyKeys :
        HasCondition(policies[k].conds, "Programmed")
            => /\ CondIs(policies[k].conds, "Accepted", "True")
               /\ \/ ProgrammedNames(k, "True", UpsertResults)
                  \/ ProgrammedNames(k, "False", UpsertResults)

\* C12, amended: Programmed=True is written only together with Accepted=True
\* and only by a pass that has brought the Engine in sync; so a stored
\* Programmed=True comes with Accepted=True, and its message names the Engine
\* and the result of the upsert (created, updated or unchanged).  A stored
\* Programmed=False, written when the upsert failed, may stand without
\* Accepted=True.
C12_ProgrammedLifecycle ==
    /\ [](\A k \in PolicyKeys :
            CondIs(policies[k].conds, "Programmed", "True")
                => /\ CondIs(policies[k].conds, "Accepted", "True")
                   /\ ProgrammedNames(k, "True", UpsertResults))
    /\ [][\A k \in PolicyKeys :
            (~CondIs(policies[k].conds, "Programmed", "True")
                /\ CondIs(policies'[k].conds, "Programmed", "True"))
              => (Patched(k, "programmed") /\ EngineSynced(k) /\ pass[k].op \in UpsertResults)]_vars

\* A policy whose Engine a pass has updated carries Accepted=True and
\* Programmed=True, the latter naming the Engine and the update.
C12_Witness ==
    \E k \in PolicyKeys :
        /\ result[k].done /\ result[k].err = ""
        /\ CondIs(policies[k].conds, "Accepted", "True")
        /\ ProgrammedNames(k, "True", {"updated"})

-----------------------------------------------------------------------------
(* C13: the branches of createOrUpdate *)

\* The desired object of the call passes createOrUpdate's checks.
WellFormed(d) == d.kind # "" /\ d.name # ""

Writes(log) == {i \in 1..Len(log) : log[i].op \in {"Create", "Update"}}

\* C13: createOrUpdate on a desired object with kind and name set issues one
\* Get by identity, first; after a not-found it issues exactly one Create and
\* no Update; after a Get that found the object it issues exactly one Update,
\* carrying the version token just read, and no Create; after any other
\* failure of the Get it issues no write and returns that error.
C13_UpsertBranching ==
    LET log == upsert.log IN
    (upsert.done /\ WellFormed(upsert.desired)) =>
        /\ Len(log) >= 1
        /\ log[1].op = "Get"
        /\ log[1].slot = GetSlot(upsert.desired.kind, upsert.namespace, upsert.desired.name)
        /\ \A i \in 2..Len(log) : log[i].op # "Get"
        /\ log[1].res = "NotFound" =>
              /\ Len(log) = 2
              /\ log[2].op = "Create"
        /\ log[1].res = "" =>
              /\ Len(log) = 2
              /\ log[2].op = "Update"
              /\ log[2].rv = log[1].rv
        /\ log[1].res \notin {"", "NotFound"} =>
              /\ Writes(log) = {}
              /\ upsert.err.cause = log[1].res

\* createOrUpdate has updated an object that another writer had changed
\* before the Get, sending the version token it read.
C13_Witness ==
    /\ upsert.done
    /\ upsert.err = NoError
    /\ Len(upsert.log) = 2
    /\ upsert.log[1].res = ""
    /\ upsert.log[1].rv >= 2
    /\ upsert.log[2].op = "Update"
    /\ objects[upsert.log[2].slot].rv = upsert.log[1].rv + 1

-----------------------------------------------------------------------------
(* C14: a writer between the upsert's Get and its Update *)

\* createOrUpdate sends its Update in this step, and the object has changed
\* since the Get.
UpdateAfterChange ==
    /\ upsert.pc = "update"
    /\ upsert'.pc # "update"
    /\ objects[upsert.log[1].slot].exists
    /\ objects[upsert.log[1].slot].rv # upsert.log[1].rv

\* The pass of k sends its Update of the Engine in this step, and the Engine
\* has changed since the pass read it.
EngineUpdateAfterChange(k) ==
    /\ pass[k].pc = "engupdate"
    /\ pass'[k].pc # "engupdate"
    /\ engines[EngineKeyOf(k)].exists
    /\ engines[EngineKeyOf(k)].rv # pass[k].eng.rv

Updates(log) == {i \in 1..Len(log) : log[i].op = "Update"}

\* C14: when another writer has changed the object between the upsert's Get
\* and its Update, the Update fails with a conflict, the upsert returns that
\* error having sent one Update, and the object stays as the other writer
\* left it; this holds of createOrUpdate and of the upsert of the Engine in a
\* pass, and the pass returns the error.
C14_UpsertConflict ==
    /\ [][UpdateAfterChange =>
            /\ upsert'.log[Len(upsert'.log)].op = "Update"
            /\ upsert'.log[Len(upsert'.log)].res = "Conflict"
            /\ Cardinality(Updates(upsert'.log)) = 1
            /\ upsert'.done
            /\ upsert'.err.cause = "Conflict"
            /\ objects' = objects]_vars
    /\ [][\A k \in PolicyKeys :
            /\ EngineUpdateAfterChange(k) =>
                  /\ calls'[k][Len(calls'[k])].op = "Update"
                  /\ calls'[k][Len(calls'[k])].res = "Conflict"
                  /\ Cardinality(Updates(calls'[k])) = 1
                  /\ engines' = engines
                  /\ pass'[k].pc = "syncfail"
                  /\ pass'[k].err = "Conflict"
            /\ (pass[k].pc = "syncfail" /\ pass'[k].pc = "idle") =>
                  /\ result'[k].done
                  /\ result'[k].err = pass[k].err
                  /\ result'[k].err # ""
                  /\ engines' = engines]_vars

\* Both upserts have met a conflict: createOrUpdate has returned it, the pass
\* has returned it, and the object and the Engine are those of the other
\* writers.
C14_Witness ==
    /\ upsert.done
    /\ upsert.err.cause = "Conflict"
    /\ objects[ConflictSlot].data # upsert.desired.data
    /\ result[ConflictKey].done
    /\ result[ConflictKey].err = "Conflict"
    /\ engines[EngineKeyOf(ConflictKey)].spec.image = "edited"

-----------------------------------------------------------------------------
(* C15: the steady state *)

\* The last two passes of k were undisturbed, the earlier one left the policy
\* accepted and programmed with its Engine in place, and the later one found
\* the policy with its finalizer and not being deleted: the later pass ran
\* with the Engine equal to the desired one.
SteadyPass(k) ==
    /\ Undisturbed(k)
    /\ snap[k].n = 2
    /\ snap[k].prev.engineExists
    /\ CondIs(snap[k].prev.conds, "Accepted", "True")
    /\ CondIs(snap[k].prev.conds, "Programmed", "True")
    /\ Fetched(k, {"fin"})

EngineCalls(k, ops) ==
    {i \in 1..NCalls(k) : calls[k][i].kind = "Engine" /\ calls[k][i].op \in ops}

ObservedGenerations(conds) == [i \in 1..Len(conds) |-> <<conds[i].type, conds[i].observedGeneration>>]

\* What the steady pass leaves: the Engine's spec as it was, and the two
\* conditions True with the observedGeneration they had.
SteadyOutcome(k) ==
    /\ snap[k].last.engineExists
    /\ snap[k].last.spec = snap[k].prev.spec
    /\ CondIs(snap[k].last.conds, "Accepted", "True")
    /\ CondIs(snap[k].last.conds, "Programmed", "True")
    /\ ObservedGenerations(snap[k].last.conds) = ObservedGenerations(snap[k].prev.conds)

\* C15 as stated: the steady pass performs an update call on the Engine.
C15_SteadyStateUpdates ==
    \A k \in PolicyKeys :
        SteadyPass(k) => (EngineCalls(k, {"Update"}) # {} /\ SteadyOutcome(k))

\* C15, amended: when the policy and its Engine exist and the Engine matches
\* the desired state exactly, a pass reads the Engine once and performs no
\* create or update call on it; the stored Engine is unchanged, version token
\* included, and the conditions remain Accepted=True and Programmed=True with
\* observedGeneration unchanged.
C15_SteadyState ==
    /\ [](\A k \in PolicyKeys :
            SteadyPass(k) =>
                /\ Cardinality(EngineCalls(k, {"Get"})) = 1
                /\ EngineCalls(k, {"Create", "Update"}) = {}
                /\ SteadyOutcome(k))
    /\ [][\A k \in PolicyKeys :
            (pass'[k] # pass[k] /\ (pass[k].op = "unchanged" \/ pass'[k].op = "unchanged"))
                => engines' = engines]_vars

\* A steady pass has finished: the Engine was read and found equal to the
\* desired one.
C15_Witness ==
    \E k \in PolicyKeys :
        /\ SteadyPass(k)
        /\ result[k].err = ""
        /\ LastCall(k).obs = "programmed"
        /\ ProgrammedNames(k, "True", {"unchanged"})

-----------------------------------------------------------------------------
(* C16: what a pass writes of the policy *)

\* The step is not one of another party, and it changes the stored policy k.
PassWrites(k) == env' = env /\ policies'[k] # policies[k]

\* The last call of the record of k after the step.
NewCall(k) == calls'[k][Len(calls'[k])]

\* C16: a pass changes nothing of a stored policy but its finalizer list and
\* its status conditions: targetRef, ruleSet, failurePolicy and generation
\* stay as they are; the finalizers change by an Update of the policy, which
\* leaves the conditions alone (and removes an object under deletion with its
\* last finalizer), and the conditions change by a patch of the status
\* subresource, which leaves the finalizers alone.
C16_SpecNeverMutated ==
    [][\A k \in PolicyKeys :
          PassWrites(k) =>
              /\ Len(calls'[k]) >= 1
              /\ NewCall(k).key = k
              /\ NewCall(k).res = ""
              /\ policies'[k].exists =>
                    /\ policies'[k].spec = policies[k].spec
                    /\ policies'[k].generation = policies[k].generation
                    /\ policies'[k].deleting = policies[k].deleting
                    /\ \/ /\ NewCall(k).op = "Update" /\ NewCall(k).kind = "WAFPolicy"
                          /\ policies'[k].conds = policies[k].conds
                       \/ /\ NewCall(k).op = "Patch" /\ NewCall(k).kind = "WAFPolicyStatus"
                          /\ policies'[k].finalizers = policies[k].finalizers
              /\ ~policies'[k].exists =>
                    /\ policies[k].deleting
                    /\ NewCall(k).op = "Update" /\ NewCall(k).obs = "removeFinalizer"]_vars

\* A pass has attached the finalizer and patched the status of a policy whose
\* spec a user had changed before: spec and generation are the user's.
C16_Witness ==
    \E k \in PolicyKeys :
        /\ result[k].done
        /\ \E i \in 1..NCalls(k) : calls[k][i].obs = "addFinalizer" /\ calls[k][i].res = ""
        /\ LastCall(k).op = "Patch" /\ LastCall(k).res = ""
        /\ policies[k].generation = 2
        /\ policies[k].spec \in PolicySpecs
        /\ wafPolicyFinalizer \in policies[k].finalizers
        /\ policies[k].conds # <<>>

-----------------------------------------------------------------------------
(* C17: errors of the store are returned *)

\* The calls of the pass of k on the policy, the target and the Engine that
\* failed otherwise than with not-found.
FailedCalls(k) ==
    {i \in 1..NCalls(k) :
        /\ calls[k][i].op \in {"Get", "Create", "Update"}
        /\ calls[k][i].kind \in {"WAFPolicy", "Gateway", "HTTPRoute", "Engine"}
        /\ calls[k][i].res \notin {"", "NotFound"}}

\* C17: when a store call of a pass (the fetch of the policy, the Update of
\* its finalizers, the fetch of the target, the Get, Create or Update of the
\* Engine) fails with an error other than not-found, the pass returns that
\* error.
C17_ErrorsReturned ==
    \A k \in PolicyKeys :
        (result[k].done /\ FailedCalls(k) # {}) =>
            /\ result[k].err # ""
            /\ \E i \in FailedCalls(k) : result[k].err = calls[k][i].res

\* A pass has ended on a failed fetch of its policy, and returned the error.
C17_Witness ==
    \E k \in PolicyKeys :
        /\ result[k].done
        /\ NCalls(k) = 1
        /\ calls[k][1].kind = "WAFPolicy" /\ calls[k][1].op = "Get"
        /\ calls[k][1].res = "Transient"
        /\ result[k].err = "Transient"

-----------------------------------------------------------------------------
(* C18: the bounds of the backoff *)

\* The delay the claim gives for the n-th failure in a row.
ClaimedDelay(n) == IF 1 * 2^(n - 1) < 60 THEN 1 * 2^(n - 1) ELSE 60

\* The controller handles, in this step, the result of a pass of k.
Handled(k) ==
    \E w \in Workers :
        /\ queue.workers[w].key = k
        /\ queue.workers[w].stage = "reconcile"
        /\ queue'.workers[w].stage = "done"

\* C18: the delay of the requeue after the n-th pass of a key that failed in
\* a row (returned an error or asked for a requeue) is min(1 * 2^(n-1), 60)
\* seconds, never below 1 and never above 60; the count is kept per key, so
\* the result of a pass of one key changes no other key's count or delay;
\* and a pass that succeeds resets the count of its key, so that its next
\* failure is delayed by 1.
C18_BackoffBounds ==
    /\ [](\A k \in QueueKeys :
            limiter.streak[k] >= 1 =>
                /\ limiter.delay[k] = ClaimedDelay(limiter.streak[k])
                /\ limiter.delay[k] >= 1
                /\ limiter.delay[k] <= 60)
    /\ [][\A k \in QueueKeys :
            /\ (limiter'.failures[k] # limiter.failures[k] \/ limiter'.delay[k] # limiter.delay[k])
                  => Handled(k)
            /\ (limiter.streak[k] >= 1 /\ limiter'.streak[k] = 0)
                  => When(limiter'.failures[k]) = 1]_vars

\* One key has failed so often that its delay has reached the cap, while the
\* other key, having failed once, is delayed by the floor.
C18_Witness ==
    \E k, j \in QueueKeys :
        /\ limiter.streak[k] = 8
        /\ limiter.delay[k] = 60
        /\ limiter.streak[j] = 1
        /\ limiter.delay[j] = 1

-----------------------------------------------------------------------------
(* C19: one pass per key at a time *)

Busy(w) == queue.workers[w].stage # "idle"

\* C19: with several workers taking keys from the queue, no two workers hold
\* the same key at any time, so no two passes of a key are in progress at
\* once; and a key has one entry in the queue at most, however many events
\* have enqueued it, none while a worker holds it unless it was enqueued
\* again.
C19_SingleWriterPerKey ==
    /\ \A w1, w2 \in Workers :
          (w1 # w2 /\ Busy(w1) /\ Busy(w2)) => queue.workers[w1].key # queue.workers[w2].key
    /\ \A i, j \in 1..Len(queue.items) : queue.items[i] = queue.items[j] => i = j
    /\ \A i \in 1..Len(queue.items) : queue.items[i] \notin queue.processing
    /\ queue.processing = {queue.workers[w].key : w \in {v \in Workers : Busy(v)}}

\* The passes of two keys are in progress at once, and an event for one of
\* the keys, arrived meanwhile, is held back until its pass is over.
C19_Witness ==
    \E w1, w2 \in Workers :
        /\ queue.workers[w1].stage = "reconcile"
        /\ queue.workers[w2].stage = "reconcile"
        /\ queue.workers[w1].key # queue.workers[w2].key
        /\ queue.workers[w1].key \in queue.dirty
        /\ queue.items = <<>>

-----------------------------------------------------------------------------
(* C20: the policy leaves the store in the middle of a pass *)

\* The pass of k fetched the policy and has ended on a write of the policy
\* (the Update of its finalizers or a patch of its status) that the store
\* answered with not-found.
VanishedMidPass(k) ==
    /\ result[k].done
    /\ NCalls(k) >= 2
    /\ calls[k][1].op = "Get" /\ calls[k][1].kind = "WAFPolicy" /\ calls[k][1].res = ""
    /\ LastCall(k).kind \in {"WAFPolicy", "WAFPolicyStatus"}
    /\ LastCall(k).op \in {"Update", "Patch"}
    /\ LastCall(k).res = "NotFound"

\* C20: if the policy is removed from the store after a pass has fetched it,
\* so that the Update of the finalizers or the patch of the status returns
\* not-found, the pass completes with no error and asks for no retry.
C20_NotFoundIsSuccess ==
    \A k \in PolicyKeys :
        VanishedMidPass(k) => (result[k].err = "" /\ ~result[k].requeue)

-----------------------------------------------------------------------------
(* C21: terminal validation outcomes are not retried *)

TerminalReasons == {"InvalidTargetRef", "NoParentGateway", "InvalidParentRef"}

\* The pass of k ends with a terminal validation outcome, its status patch
\* having succeeded: it returns no error and no requeue, and leaves the queue
\* and the rate limiter without a request for k that was not there before.
TerminalStep(k) == Patched(k, "setNotAccepted") /\ pass[k].reason \in TerminalReasons

TerminalReturn(k) ==
    TerminalStep(k) => /\ result'[k] = Result(FALSE, "")
                       /\ sched'.retry = sched.retry
                       /\ sched'.ready = sched.ready
                       /\ HasReason(policies'[k].conds, "Accepted", "False", pass[k].reason)

\* The stored condition of k shows a terminal outcome, no pass of k is in
\* flight and no request for k is in the queue or held back by the rate limiter.
TerminalQuiet(k) ==
    /\ pass[k].pc = "idle"
    /\ k \notin sched.ready \cup sched.retry
    /\ policies[k].exists
    /\ \E reason \in TerminalReasons :
          HasReason(policies[k].conds, "Accepted", "False", reason)

Enqueued(k) == k \notin sched.ready /\ k \in sched'.ready

\* The step delivers an event of the policy of k that passes the generation
\* predicate, an event of the target the policy names, an event of its Engine.
PolicyGenerationEvent(k) == sched'.seen.policies[k] # sched.seen.policies[k]

TargetEvent(k) ==
    LET t == <<k[1], policies[k].spec.name>> IN
    \/ /\ policies[k].spec.kind = "Gateway"
       /\ (t \in sched'.seen.gateways) # (t \in sched.seen.gateways)
    \/ /\ policies[k].spec.kind = "HTTPRoute"
       /\ t \in RouteKeys
       /\ sched'.seen.routes[t] # sched.seen.routes[t]

OwnedEngineEvent(k) ==
    /\ sched'.seen.engines[EngineSlot(k)] # sched.seen.engines[EngineSlot(k)]
    /\ k \in ControllerOf(sched.seen.engines[EngineSlot(k)], k[1])
               \cup ControllerOf(sched'.seen.engines[EngineSlot(k)], k[1])

\* C21 as stated: a pass that ends with InvalidTargetRef, NoParentGateway or
\* InvalidParentRef and whose status patch succeeds returns requeue=false and
\* no error, and the key is processed again only after a change of the policy's
\* generation or an event of its target.
C21_OnlyGenerationOrTarget ==
    [][\A k \in PolicyKeys :
          /\ TerminalReturn(k)
          /\ (TerminalQuiet(k) /\ Enqueued(k))
                => (PolicyGenerationEvent(k) \/ TargetEvent(k))]_vars

\* C21, amended: a pass that ends with InvalidTargetRef, NoParentGateway or
\* InvalidParentRef and whose status patch succeeds returns requeue=false and
\* no error and stores the outcome as the Accepted condition; where no request
\* for the key is pending or held back, the key is queued again only by a
\* change of the policy's generation, an event of its target, or an event of
\* an Engine the policy controls.
C21_TerminalNotRetried ==
    [][\A k \in PolicyKeys :
          /\ TerminalReturn(k)
          /\ (TerminalQuiet(k) /\ Enqueued(k))
                => (PolicyGenerationEvent(k) \/ TargetEvent(k) \/ OwnedEngineEvent(k))]_vars

\* A pass has ended with a terminal outcome, returned success, and its key is
\* neither queued nor held back.
C21_Witness ==
    \E k \in PolicyKeys :
        /\ TerminalQuiet(k)
        /\ result[k] = Result(FALSE, "")
        /\ NCalls(k) >= 1
        /\ LastCall(k).op = "Patch"
        /\ LastCall(k).obs = "setNotAccepted"
        /\ LastCall(k).res = ""

-----------------------------------------------------------------------------
(* C22: exactly one of Ready, Degraded, Progressing is True *)

TrueTypes(conds) ==
    {t \in {"Ready", "Degraded", "Progressing"} : CondIs(conds, t, "True")}

\* C22: after any non-empty sequence of calls of setStatusReady,
\* setStatusConditionDegraded and setStatusProgressing on one condition list,
\* exactly one of the conditions Ready, Degraded, Progressing has status True.
C22_ExactlyOneTrue ==
    conditions.last # "" => Cardinality(TrueTypes(conditions.list)) = 1

-----------------------------------------------------------------------------
(* C23: an edited Engine is restored *)

\* The gateway name the target of the policy of k resolves to, in the store as
\* it is, and the Engine spec synthesized from the policy and that name.
ResolvedGateway(k) ==
    IF policies[k].spec.kind = "Gateway" THEN policies[k].spec.name
    ELSE RouteGateway(routes[<<k[1], policies[k].spec.name>>])

Synthesized(k) == EngineSpecFor(policies[k], ResolvedGateway(k))

\* Another party has edited the Engine of the accepted policy of k: fields the
\* synthesis owns differ from the synthesized values.
Drifted(k) ==
    /\ policies[k].exists
    /\ ~policies[k].deleting
    /\ Resolvable(k)
    /\ CondIs(policies[k].conds, "Accepted", "True")
    /\ engines[EngineSlot(k)].exists
    /\ OwnerRefOf(k) \in engines[EngineSlot(k)].owners
    /\ engines[EngineSlot(k)].spec.image = "edited"
    /\ engines[EngineSlot(k)].spec # Synthesized(k)

\* The policy or its target is no longer what it was: the policy is gone or
\* under deletion, its target does not resolve, or the Engine is gone.
Moved(k) ==
    \/ ~policies[k].exists
    \/ policies[k].deleting
    \/ ~Resolvable(k)
    \/ ~engines[EngineSlot(k)].exists

\* The whole Engine spec is the synthesized one: nothing of the edit is kept.
Restored(k) == Resolvable(k) /\ engines[EngineSlot(k)].spec = Synthesized(k)

\* C23: if the Engine of an accepted policy is edited by another party so that
\* synthesized fields differ, then, unless the policy or its target goes away,
\* a pass of the owning policy follows (the Engine's event queues its key) that
\* makes the Engine's spec equal to the one synthesized from the policy and the
\* translator config, keeping nothing of the edit.
C23_SelfHealing ==
    Drifted(LiveKey) ~> (Moved(LiveKey) \/ Restored(LiveKey))

\* The watch has delivered the edit of the Engine, and a pass of the policy has
\* since updated the Engine to the synthesized spec.
C23_Witness ==
    \E k \in PolicyKeys :
        /\ sched.seen.engines[EngineSlot(k)].spec.image = "edited"
        /\ result[k] = Result(FALSE, "")
        /\ \E i \in 1..NCalls(k) :
              calls[k][i].kind = "Engine" /\ calls[k][i].op = "Update" /\ calls[k][i].res = ""
        /\ Restored(k)
        /\ engines[EngineSlot(k)].rv >= 3

-----------------------------------------------------------------------------
(* C24: the owner of an Engine the pass writes *)

\* The pass of k creates or updates its Engine in this step.
EngineWritten(k) ==
    /\ pass[k].pc \in {"engcreate", "engupdate"}
    /\ pass'[k].pc = "progd"

PolicyOwners(e) == {o \in e.owners : o.kind = "WAFPolicy"}

\* C24: every Engine a pass creates or updates carries an owner reference to
\* exactly one policy, the policy of the pass, which is the policy in the
\* Engine's namespace whose name is the Engine's name without "wafpolicy-";
\* the reference is a controller reference, and no other Engine is written.
C24_OwnedByItsPolicy ==
    [][\A k \in PolicyKeys :
          EngineWritten(k) =>
              \E ek \in EngineKeys :
                  /\ engines'[ek] # engines[ek]
                  /\ \A other \in EngineKeys \ {ek} : engines'[other] = engines[other]
                  /\ engines'[ek].exists
                  /\ ek[1] = k[1]
                  /\ ek[2] = "wafpolicy-" \o k[2]
                  /\ PolicyOwners(engines'[ek]) = {OwnerRef(k, pass[k].pol.uid)}
                  /\ pass[k].pol.uid = policies[k].uid]_vars

\* A pass has updated an Engine that was in the store, and the Engine carries
\* the reference to the policy of the pass.
C24_Witness ==
    \E k \in PolicyKeys :
        /\ pass[k].pc = "progd"
        /\ pass[k].op = "updated"
        /\ PolicyOwners(engines[EngineSlot(k)]) = {OwnerRefOf(k)}

-----------------------------------------------------------------------------
(* C25: a failed status patch *)

\* The pass of k ends in this step with a status patch; PatchFailed: the
\* patch returned an error.
PatchEnds(k) ==
    /\ pass[k].pc \in {"notacc", "syncfail", "progd"}
    /\ pass'[k].pc = "idle"
    /\ Len(calls'[k]) = Len(calls[k]) + 1
    /\ calls'[k][Len(calls'[k])].op = "Patch"

PatchFailed(k) == PatchEnds(k) /\ calls'[k][Len(calls'[k])].res # ""

\* The condition list the pass of k has computed when it reaches its patch.
Computed(k) ==
    IF pass[k].pc = "notacc"
    THEN RemoveStatusCondition(
             SetStatusCondition(pass[k].pol.conds,
                 Condition("Accepted", "False", pass[k].pol.generation,
                           pass[k].reason, pass[k].message)),
             "Programmed")
    ELSE IF pass[k].pc = "syncfail"
    THEN SetStatusCondition(pass[k].pol.conds,
             Condition("Programmed", "False", pass[k].pol.generation, "EngineSyncFailed",
                       "Failed to create/update Engine: " \o pass[k].err))
    ELSE SetStatusCondition(
             SetStatusCondition(pass[k].pol.conds,
                 Condition("Accepted", "True", pass[k].pol.generation, "Accepted",
                           "WAFPolicy is accepted")),
             Condition("Programmed", "True", pass[k].pol.generation, "Programmed",
                       "Engine " \o Quote("wafpolicy-" \o k[2]) \o " " \o pass[k].op))

\* C25: whenever the status patch of a pass fails, the pass returns an error
\* and the controller requeues its key, so that the pass runs again from the
\* start; a pass that ends with a patch and returns no error has stored the
\* condition list it computed.
C25_PatchFailureIsRetried ==
    [][\A k \in PolicyKeys :
          /\ PatchFailed(k) => (result'[k].done /\ result'[k].err # "" /\ k \in sched'.retry)
          /\ (PatchEnds(k) /\ result'[k].err = "")
                => (calls'[k][Len(calls'[k])].res = "" /\ policies'[k].conds = Computed(k))]_vars

\* The patch of the success branch has failed, the pass has returned the
\* error, and the key waits for its requeue.
C25_Witness ==
    \E k \in PolicyKeys :
        /\ result[k].done
        /\ NCalls(k) >= 1
        /\ LastCall(k).op = "Patch"
        /\ LastCall(k).obs = "programmed"
        /\ LastCall(k).res # ""
        /\ result[k].err = LastCall(k).res
        /\ k \in sched.retry

-----------------------------------------------------------------------------
(* C26: the fan-out when the listing fails *)

\* The policies of the event's namespace that name the event's target.
Targeting(kind, name, namespace) ==
    {k \in PolicyKeys : /\ policies[k].exists
                        /\ k[1] = namespace
                        /\ policies[k].spec.kind = kind
                        /\ policies[k].spec.name = name}

\* C26: when the listing of the policies of the event's namespace fails,
\* findPoliciesForTarget returns the empty list, whatever policies name the
\* target: no request results from the event, and the watch gets no error.
C26_FailOpen ==
    (fanout.kind # "" /\ ~fanout.listed) => fanout.requests = <<>>

\* The listing failed for an event of a target that a policy of the namespace
\* names, and no request was returned.
C26_Witness ==
    /\ fanout.kind # ""
    /\ ~fanout.listed
    /\ Targeting(fanout.kind, fanout.name, fanout.namespace) # {}
    /\ fanout.requests = <<>>

-----------------------------------------------------------------------------
(* C27: the admission guard *)

AdmittedKinds == {"Gateway", "HTTPRoute"}

\* The request recorded last was for a targetRef outside the admitted ones.
BadRequest ==
    /\ admission.key # <<>>
    /\ \/ admission.group # "gateway.networking.k8s.io"
       \/ admission.spec.kind \notin AdmittedKinds

\* C27: a request to create (or change) a policy whose targetRef.group is not
\* gateway.networking.k8s.io or whose targetRef.kind is neither Gateway nor
\* HTTPRoute is rejected by the store; every stored policy has kind Gateway or
\* HTTPRoute, and no pass takes the InvalidTargetRef branch of Reconcile.
C27_AdmissionGuard ==
    /\ BadRequest => admission.err # <<>>
    /\ \A k \in PolicyKeys :
          /\ policies[k].exists => policies[k].spec.kind \in AdmittedKinds
          /\ pass[k].reason # "InvalidTargetRef"
          /\ ~HasReason(policies[k].conds, "Accepted", "False", "InvalidTargetRef")

\* The creation of a policy that targets a Service was rejected: the store
\* holds no policy of that key.
C27_Witness ==
    /\ BadRequest
    /\ admission.group = "gateway.networking.k8s.io"
    /\ admission.spec.kind = "Service"
    /\ admission.err = <<"targetRef.kind must be Gateway or HTTPRoute">>
    /\ ~policies[admission.key].exists

-----------------------------------------------------------------------------
(* C28: level-triggered convergence *)

\* What target resolution makes of the policy of k in the store as it is: the
\* rejection (a pass record with reason and message), or a record with pc
\* "engget" when a gateway name results.
Verdict(k) ==
    LET pol == policies[k]
        name == pol.spec.name
        route == RouteOf(<<k[1], name>>) IN
    IF pol.spec.kind = "Gateway"
    THEN (IF <<k[1], name>> \in gateways
          THEN [IdlePass EXCEPT !.pc = "engget", !.gw = name]
          ELSE TargetNotFound(pol, "Gateway", name))
    ELSE (IF ~route.exists THEN TargetNotFound(pol, "HTTPRoute", name)
          ELSE IF RouteReason(route) # ""
          THEN NotAccepted(pol, RouteReason(route), RouteMessage(route, name), FALSE)
          ELSE [IdlePass EXCEPT !.pc = "engget", !.gw = RouteGateway(route)])

\* The conditions a pass over the store as it is leaves in the policy of k.
ExpectedConds(k) ==
    IF Verdict(k).pc = "notacc"
    THEN NotAcceptedConds(policies[k], Verdict(k).reason, Verdict(k).message)
    ELSE ProgrammedConds(policies[k], "wafpolicy-" \o k[2], "unchanged")

\* The Engine and the conditions of the policy of k are those computed from
\* the policy and its target as they are.
Converged(k) ==
    /\ policies[k].conds = ExpectedConds(k)
    /\ Verdict(k).pc = "engget"
          => /\ engines[EngineSlot(k)].exists
             /\ engines[EngineSlot(k)].spec = EngineSpecFor(policies[k], Verdict(k).gw)

Live(k) == policies[k].exists /\ ~policies[k].deleting

\* C28: once the changes of the policy's spec and of its target stop, the
\* Engine spec and the policy's conditions eventually equal those computed
\* from the final policy spec and the final target state, under fair
\* scheduling and with store errors that do not persist.
C28_Convergence == <>[](Live(LiveKey) => Converged(LiveKey))

-----------------------------------------------------------------------------
(* C29: generation stamping *)

\* The conditions of the policy of k that a step has set: those of the new
\* list that the old list does not hold.
ConditionsSet(k) ==
    {policies'[k].conds[i] : i \in 1..Len(policies'[k].conds)}
        \ {policies[k].conds[i] : i \in 1..Len(policies[k].conds)}

\* Every condition a pass sets carries the generation the pass has read.
StampedAsRead ==
    \A k \in PolicyKeys :
        (pass[k].pc # "idle" /\ policies'[k].exists)
            => \A c \in ConditionsSet(k) : c.observedGeneration = pass[k].pol.generation

\* No condition in the store is ahead of its policy's generation.
NeverAhead ==
    \A k \in PolicyKeys :
        policies[k].exists
            => \A i \in 1..Len(policies[k].conds) :
                   policies[k].conds[i].observedGeneration <= policies[k].generation

\* A condition of the policy of k is stale: written for an earlier generation.
Stale(k) ==
    /\ policies[k].exists
    /\ \E i \in 1..Len(policies[k].conds) :
           policies[k].conds[i].observedGeneration < policies[k].generation

\* C29 as claimed: every condition a pass sets carries the generation of the
\* policy as read by that pass; so in every reachable state each condition's
\* observedGeneration is at most the policy's generation in the store, and a
\* condition written by a pass that raced with a change of the spec shows as
\* stale (observedGeneration < generation).
C29_GenerationStamping == [][StampedAsRead]_vars /\ []NeverAhead

\* No condition of the policy record p is ahead of p's generation.
WithinGeneration(p) ==
    \A i \in 1..Len(p.conds) : p.conds[i].observedGeneration <= p.generation

\* No step puts a condition ahead of its policy's generation, but the status
\* patch of a pass that read an earlier object of the policy's name (another
\* UID): such a pass stamps the generation of the object it read.
AheadOnlyAfterRecreation ==
    \A k \in PolicyKeys :
        (/\ policies'[k].exists
         /\ policies[k].exists => WithinGeneration(policies[k])
         /\ ConditionsSet(k) # {} => pass[k].pol.uid = policies'[k].uid)
        => WithinGeneration(policies'[k])

\* C29, amended: every condition a pass sets carries the generation of the
\* policy as read by that pass; so each condition's observedGeneration is at
\* most the generation of the policy in the store for as long as the policy
\* is the object the pass read, and not one deleted and created again under
\* the same name since.
C29_StampingWithinObject == [][StampedAsRead /\ AheadOnlyAfterRecreation]_vars

\* A pass that raced with a change of the spec has written its conditions:
\* they carry the generation the pass read, one behind the store's.
C29_Witness ==
    \E k \in PolicyKeys :
        /\ result[k].done
        /\ NCalls(k) >= 1
        /\ LastCall(k).op = "Patch"
        /\ LastCall(k).res = ""
        /\ Stale(k)
        /\ ~policies[k].deleting
        /\ policies[k].generation = 2
        /\ Len(policies[k].conds) >= 1
        /\ \A i \in 1..Len(policies[k].conds) : policies[k].conds[i].observedGeneration = 1

-----------------------------------------------------------------------------
(* C30: eventual acceptance *)

\* The object the policy of k names as its target is in the store.
TargetExists(k) ==
    /\ Live(k)
    /\ IF policies[k].spec.kind = "Gateway"
       THEN <<k[1], policies[k].spec.name>> \in gateways
       ELSE RouteOf(<<k[1], policies[k].spec.name>>).exists

\* A pass has found the target of the policy of k absent: the policy shows
\* Accepted=False with reason TargetNotFound.
FoundAbsent(k) ==
    /\ Live(k)
    /\ HasReason(policies[k].conds, "Accepted", "False", "TargetNotFound")

\* The policy of k shows Accepted=True and Programmed=True and its Engine is
\* in the store.
AcceptedAndProgrammed(k) ==
    /\ Live(k)
    /\ HasReason(policies[k].conds, "Accepted", "True", "Accepted")
    /\ HasReason(policies[k].conds, "Programmed", "True", "Programmed")
    /\ engines[EngineSlot(k)].exists

\* The target of the policy of k is in the store and resolves to a gateway
\* name.
TargetResolves(k) ==
    /\ Live(k)
    /\ Verdict(k).pc = "engget"

\* C30 as stated: a policy whose target was absent when it was reconciled and
\* has been created since eventually has Accepted=True and Programmed=True and
\* its Engine, unless the target goes away again.
C30_EventualAcceptance ==
    (FoundAbsent(LiveKey) /\ TargetExists(LiveKey))
        ~> (AcceptedAndProgrammed(LiveKey) \/ ~TargetExists(LiveKey))

\* The target of the policy of k, whenever it is in the store, resolves to a
\* gateway name: a Gateway, or an HTTPRoute whose first parentRef is a map
\* with a name.
TargetUsable(k) == TargetExists(k) => TargetResolves(k)

\* C30, amended: the same for a target that resolves to a gateway name from
\* its creation on.
C30_AcceptanceOfResolvedTarget ==
    []TargetUsable(LiveKey)
        => ((FoundAbsent(LiveKey) /\ TargetExists(LiveKey))
               ~> (AcceptedAndProgrammed(LiveKey) \/ ~TargetExists(LiveKey)))

\* The policy was found without its target and shows TargetNotFound, the
\* target has been created, and a later pass has created the Engine and is
\* about to write Accepted=True and Programmed=True.
C30_Witness ==
    /\ FoundAbsent(LiveKey)
    /\ TargetResolves(LiveKey)
    /\ pass[LiveKey].pc = "progd"
    /\ pass[LiveKey].op = "created"
    /\ engines[EngineSlot(LiveKey)].exists

-----------------------------------------------------------------------------
(* C31: an unaccepted policy is never programmed *)

\* The stored conditions of the policy of k of one type.
CondsOf(k, type) ==
    {policies[k].conds[i] : i \in {j \in 1..Len(policies[k].conds) :
                                      policies[k].conds[j].type = type}}

\* C31 as stated: in every stored status, if Accepted is False then no
\* Programmed condition of any status is present.
C31_NoProgrammedWhenUnaccepted ==
    \A k \in PolicyKeys :
        CondIs(policies[k].conds, "Accepted", "False")
            => CondAbsent(policies[k].conds, "Programmed")

\* C31, amended: in every stored status, if Accepted is False then no
\* Programmed=True is present; a Programmed condition next to Accepted=False
\* is Programmed=False with reason EngineSyncFailed, written by a later pass
\* whose Engine upsert failed, and no older than the Accepted condition.
C31_NoProgrammedTrueWhenUnaccepted ==
    \A k \in PolicyKeys :
        CondIs(policies[k].conds, "Accepted", "False")
            => \A p \in CondsOf(k, "Programmed") :
                  /\ p.status = "False"
                  /\ p.reason = "EngineSyncFailed"
                  /\ \A a \in CondsOf(k, "Accepted") :
                        p.observedGeneration >= a.observedGeneration

\* A policy rejected for its missing target has got the target, and the
\* upsert of the next pass has failed: Accepted=False/TargetNotFound stands
\* next to Programmed=False/EngineSyncFailed.
C31_Witness ==
    \E k \in PolicyKeys :
        /\ result[k].done /\ result[k].err # ""
        /\ HasReason(policies[k].conds, "Accepted", "False", "TargetNotFound")
        /\ HasReason(policies[k].conds, "Programmed", "False", "EngineSyncFailed")

-----------------------------------------------------------------------------
(* C32: deletion completes *)

\* Deletion of the policy of k has been requested, and the core's finalizer
\* is the only one it carries.
DeletionRequested(k) ==
    /\ policies[k].exists
    /\ policies[k].deleting
    /\ policies[k].finalizers = {wafPolicyFinalizer}

\* The Engine of the name of k's is in the store under k's control.
OwnEngine(k) ==
    /\ engines[EngineSlot(k)].exists
    /\ NamesController(engines[EngineSlot(k)], k)

\* The step is a call of the pass of k that writes an Engine or the status.
CoreWrite(k) ==
    /\ Len(calls'[k]) = Len(calls[k]) + 1
    /\ calls'[k][Len(calls'[k])].op \in {"Create", "Update", "Patch"}
    /\ calls'[k][Len(calls'[k])].kind \in {"Engine", "WAFPolicyStatus"}

\* The finalizer is eventually removed and the policy leaves the store, and
\* the Engine of a policy that has left is eventually removed.
DeletionCompletes ==
    /\ DeletionRequested(LiveKey) ~> ~policies[LiveKey].exists
    /\ (~policies[LiveKey].exists /\ OwnEngine(LiveKey)) ~> ~engines[EngineSlot(LiveKey)].exists

\* C32 as stated: deletion completes, and from the deletion request on the
\* core performs no Engine write and no status write for the policy.
C32_DeletionCompletes ==
    /\ DeletionCompletes
    /\ [][\A k \in PolicyKeys : DeletionRequested(k) => ~CoreWrite(k)]_vars

\* C32, amended: deletion completes, and a pass that has read the policy
\* after the deletion request performs no Engine write and no status write.
C32_DeletionCompletesAfterRead ==
    /\ DeletionCompletes
    /\ [][\A k \in PolicyKeys :
            (pass[k].pc # "idle" /\ pass[k].pol.deleting) => ~CoreWrite(k)]_vars

\* The pass has removed the finalizer of a policy under deletion: the policy
\* has left the store and its Engine awaits the owner cascade.
C32_Witness ==
    /\ result[LiveKey].done /\ result[LiveKey].err = ""
    /\ LastCall(LiveKey).op = "Update"
    /\ LastCall(LiveKey).obs = "removeFinalizer"
    /\ ~policies[LiveKey].exists
    /\ OwnEngine(LiveKey)

-----------------------------------------------------------------------------
(* C33: missing identity *)

\* C33: createOrUpdate returns an error, and issues no Get, Create or Update,
\* when the desired object's kind is unset or its name is empty.
C33_MissingIdentity ==
    (upsert.done /\ (upsert.desired.kind = "" \/ upsert.desired.name = ""))
        => (upsert.err # NoError /\ upsert.log = <<>>)

-----------------------------------------------------------------------------
(* C34: quiescence *)

\* No pass is in flight, no request is queued or held back by the rate
\* limiter, and no event is on its way.
Quiet ==
    /\ \A k \in PolicyKeys : pass[k].pc = "idle"
    /\ sched.ready = {}
    /\ sched.retry = {}
    /\ Delivered

\* C34: with no store errors, once other parties make no more changes, a
\* policy whose target resolves is reconciled only finitely many times before
\* the work queue is empty and stays empty: the core's own writes (finalizer
\* attach, status patch, Engine create followed by an unchanged Engine) do
\* not queue the policy for ever.
C34_Quiescence ==
    ([](faults = 0) /\ <>[]TargetResolves(LiveKey)) => <>[]Quiet

\* Nobody but the core has acted and no call has failed: the policy is
\* programmed, the pass after the Engine's creation has found the Engine
\* unchanged, and nothing is queued.
C34_Witness ==
    /\ env = 0
    /\ faults = 0
    /\ Quiet
    /\ TargetResolves(LiveKey)
    /\ AcceptedAndProgrammed(LiveKey)
    /\ ProgrammedNames(LiveKey, "True", {"unchanged"})
    /\ wafPolicyFinalizer \in policies[LiveKey].finalizers

-----------------------------------------------------------------------------
(* C35: an Engine under another controller is not taken over *)

\* An Engine that a controller other than policy k controls.
ControlledByAnother(engine, k) ==
    \E o \in engine.owners : o.controller /\ (o.kind # "WAFPolicy" \/ o.name # k[2])

\* The pass of k has found an Engine of its name in the store.
EngineFound(k) ==
    \E i \in 1..NCalls(k) :
        calls[k][i].op = "Get" /\ calls[k][i].kind = "Engine" /\ calls[k][i].res = ""

\* The step is a store call of the pass of k.
PassCall(k) == Len(calls'[k]) = Len(calls[k]) + 1

\* No call of the pass of k changes an Engine that another controller owns.
ForeignEngineKept ==
    \A k \in PolicyKeys :
        (ControlledByAnother(engines[EngineSlot(k)], k) /\ PassCall(k))
            => engines'[EngineSlot(k)] = engines[EngineSlot(k)]

\* The pass of k reads the Engine and finds it under another controller: the
\* upsert stops on the ownership error.
ForeignEngineRefused ==
    \A k \in PolicyKeys :
        (/\ PassCall(k)
         /\ calls'[k][Len(calls'[k])].kind = "Engine"
         /\ calls'[k][Len(calls'[k])].op = "Get"
         /\ calls'[k][Len(calls'[k])].res = ""
         /\ ControlledByAnother(engines[EngineSlot(k)], k))
        => /\ pass'[k].pc = "syncfail"
           /\ pass'[k].err = "AlreadyOwned"

\* The next call of a pass whose upsert has failed is its last, and the pass
\* returns the error of the upsert.
UpsertErrorReturned ==
    \A k \in PolicyKeys :
        (pass[k].pc = "syncfail" /\ PassCall(k))
            => result'[k] = Result(FALSE, pass[k].err)

\* A finished pass that returned the ownership error has sent no Create and
\* no Update for the Engine and has ended with the status patch of the failed
\* synchronisation; when that patch was stored, the policy carries
\* Programmed=False/EngineSyncFailed.
ForeignEngineReported ==
    \A k \in PolicyKeys :
        (result[k].done /\ result[k].err = "AlreadyOwned")
        => /\ EngineFound(k)
           /\ \A j \in 1..NCalls(k) :
                 calls[k][j].kind = "Engine" => calls[k][j].op = "Get"
           /\ LastCall(k).obs = "syncFailed"
           /\ LastCall(k).res = "" =>
                 HasReason(policies[k].conds, "Programmed", "False", "EngineSyncFailed")

\* The policy of k is in the store and the Engine of its name has been under
\* another controller since before any pass: nobody but the core has acted.
ForeignFromTheStart(k) ==
    /\ env = 0
    /\ policies[k].exists
    /\ ControlledByAnother(engines[EngineSlot(k)], k)

\* C35 as claimed: when an Engine "wafpolicy-<name of P>" in P's namespace is
\* controlled by an owner other than P, a pass for P leaves its stored spec
\* and owners as they are, returns an error, and records Programmed=False
\* with reason EngineSyncFailed on P.  No store call fails.
C35_EveryPassReports ==
    /\ [][ForeignEngineKept]_vars
    /\ [](\A k \in PolicyKeys :
            (result[k].done /\ faults = 0 /\ ForeignFromTheStart(k))
                => /\ result[k].err # ""
                   /\ HasReason(policies[k].conds, "Programmed", "False", "EngineSyncFailed"))

\* C35, amended: no pass for P changes the Engine; a pass for P that resolves
\* P's target and reads the Engine returns the ownership error, and records
\* Programmed=False with reason EngineSyncFailed on P when its status patch
\* is stored.
C35_ForeignEngineNotTakenOver ==
    /\ [][ForeignEngineKept /\ ForeignEngineRefused /\ UpsertErrorReturned]_vars
    /\ []ForeignEngineReported

\* C35's case: a pass has found the Engine that was under another controller
\* from the start, has returned the ownership error, and the Engine is as
\* that controller made it.
C35_Witness ==
    \E k \in PolicyKeys :
        /\ result[k].done
        /\ EngineFound(k)
        /\ result[k].err = "AlreadyOwned"
        /\ ForeignFromTheStart(k)
        /\ engines[EngineSlot(k)].owners = {ForeignOwner}
        /\ engines[EngineSlot(k)].spec \in {BuildEngine(opts) : opts \in EngineOptions}
        /\ engines[EngineSlot(k)].rv = 1
        /\ HasReason(policies[k].conds, "Programmed", "False", "EngineSyncFailed")

-----------------------------------------------------------------------------
(* C36: the parent gateway of a route is not looked up *)

\* The Gateway the first parentRef of the route names is in the store.
ParentGatewayExists(rk) ==
    <<rk[1], routes[rk].refs[1].name>> \in gateways

\* What the pass of k leaves for a route whose first parentRef names a
\* gateway: the Engine selecting that name, and both conditions True.
RoutePassOutcome(k, route) ==
    LET engine == engines[EngineSlot(k)] IN
    /\ LastCall(k).obs = "programmed"
    /\ engine.exists
    /\ engine.spec = EngineSpecFor(policies[k], route.refs[1].name)
    /\ OwnerRefOf(k) \in engine.owners
    /\ CondIs(policies[k].conds, "Accepted", "True")
    /\ CondIs(policies[k].conds, "Programmed", "True")
    /\ \A j \in 1..NCalls(k) : calls[k][j].kind # "Gateway"

\* C36: for a policy that targets an HTTPRoute, an undisturbed pass that finds
\* the route with a first parentRef that is a map with a non-empty name ends
\* with Accepted=True and Programmed=True and the Engine written for that
\* name, whether or not a Gateway of that name is in the namespace and
\* whatever kind the parentRef declares; the pass never reads a Gateway.
C36_ParentGatewayNotVerified ==
    \A k \in PolicyKeys : \A i \in 1..NCalls(k) :
        (/\ RouteFound(k, i)
         /\ Undisturbed(k)
         /\ NamedFirstParentRef(routes[calls[k][i].key]))
        => RoutePassOutcome(k, routes[calls[k][i].key])

\* C36's case: the first parentRef declares kind Service and names a gateway
\* that is not in the store, and the pass has created the Engine for it.
C36_Witness ==
    \E k \in PolicyKeys : \E i \in 1..NCalls(k) :
        /\ RouteFound(k, i)
        /\ Undisturbed(k)
        /\ NamedFirstParentRef(routes[calls[k][i].key])
        /\ routes[calls[k][i].key].refs[1].kind = "Service"
        /\ ~ParentGatewayExists(calls[k][i].key)
        /\ gateways = {}
        /\ \E j \in 1..NCalls(k) :
              calls[k][j].kind = "Engine" /\ calls[k][j].op = "Create" /\ calls[k][j].res = ""
        /\ engines[EngineSlot(k)].spec.matchLabels =
              {<<GatewayNameLabel, routes[calls[k][i].key].refs[1].name>>}
        /\ CondIs(policies[k].conds, "Accepted", "True")
        /\ CondIs(policies[k].conds, "Programmed", "True")

-----------------------------------------------------------------------------
(* C37: a rejecting pass leaves the Engines alone *)

NotAcceptedReasons ==
    {"TargetNotFound", "NoParentGateway", "InvalidParentRef", "InvalidTargetRef"}

\* The only calls of a pass that change an Engine are the Create and the
\* Update of ensureEngine; the policy read, the finalizer update, the target
\* lookup and the status patch leave every Engine as it is.
EnginesWrittenByUpsertOnly ==
    \A k \in PolicyKeys :
        (PassCall(k) /\ pass[k].pc \notin {"engcreate", "engupdate"})
            => engines' = engines

\* A pass that has ended in setNotAccepted has sent no call for an Engine;
\* when its patch was stored the policy carries Accepted=False with one of
\* the four reasons and no Programmed condition.
RejectedWithoutEngineCall ==
    \A k \in PolicyKeys :
        (NCalls(k) >= 1 /\ LastCall(k).obs = "setNotAccepted")
        => /\ \A j \in 1..NCalls(k) : calls[k][j].kind # "Engine"
           /\ LastCall(k).res = "" =>
                 /\ \E r \in NotAcceptedReasons :
                       HasReason(policies[k].conds, "Accepted", "False", r)
                 /\ CondsOf(k, "Programmed") = {}

\* C37: a pass that ends with Accepted=False (TargetNotFound, NoParentGateway,
\* InvalidParentRef or InvalidTargetRef) creates, updates and deletes no
\* Engine: an Engine written by an earlier accepted pass stays in the store
\* with its spec while the policy reports Accepted=False and no Programmed
\* condition.
C37_NotAcceptedLeavesEngine ==
    [][EnginesWrittenByUpsertOnly]_vars /\ []RejectedWithoutEngineCall

\* C37's case: the Engine an accepted pass wrote for the route's gateway is
\* still there with that spec after the route lost its parentRefs and the
\* pass has rejected the policy.
C37_Witness ==
    \E k \in PolicyKeys :
        /\ result[k] = Result(FALSE, "")
        /\ LastCall(k).obs = "setNotAccepted"
        /\ policies[k].spec.kind = "HTTPRoute"
        /\ HasReason(policies[k].conds, "Accepted", "False", "NoParentGateway")
        /\ CondsOf(k, "Programmed") = {}
        /\ engines[EngineSlot(k)].exists
        /\ engines[EngineSlot(k)].spec = EngineSpecFor(policies[k], "gw1")
        /\ engines[EngineSlot(k)].owners = {OwnerRefOf(k)}

====
